---- MODULE Spec2Model ----
(***************************************************************************)
(* ctags-lsp: a language server that answers completion, definition and    *)
(* symbol queries from an in-memory index of ctags records.                *)
(*                                                                         *)
(* Strings that the code takes apart (names, lines, paths, URIs) are       *)
(* sequences of one-character strings, so that prefix tests, splitting,    *)
(* path arithmetic and rune indexing are computed the way the code         *)
(* computes them.                                                          *)
(***************************************************************************)
EXTENDS Integers, Sequences, FiniteSets, TLC

----------------------------------------------------------------------------
(* Bounds of the model *)

\* number of messages the framer reads from stdin in one run, when the
\* client may send any message
MaxMsgs == 2
\* the same, when the client sends only initialize, didSave and
\* workspace/symbol
MaxIndexMsgs == 3
\* the same, when the client sends only document notifications and
\* completion requests
MaxDocMsgs == 3
\* number of records of the index a query runs on, when the index is
\* given rather than built
MaxRecords == 2
\* number of times the editor rewrites a file on disk in one run
MaxDiskWrites == 1
\* number of messages the client sends when it edits two documents and
\* asks for definitions
MaxCacheMsgs == 3
\* number of queries the client sends, one after the other, on a given index
MaxQueries == 2
\* messages read from a client whose workspace is indexed from tool output
\* and tags files that name files in any style
MaxPathMsgs == 2
\* kind description headers in a tags file and symbols in a tags file
MaxHeaders == 2
MaxSymbols == 2

----------------------------------------------------------------------------
(* Characters and strings *)

LowerAlpha == <<"a","b","c","d","e","f","g","h","i","j","k","l","m",
                "n","o","p","q","r","s","t","u","v","w","x","y","z">>
UpperAlpha == <<"A","B","C","D","E","F","G","H","I","J","K","L","M",
                "N","O","P","Q","R","S","T","U","V","W","X","Y","Z">>
Digits == {"0","1","2","3","4","5","6","7","8","9"}

Range(s) == {s[i] : i \in DOMAIN s}

\* mutant: '$' is no identifier character
isIdentifierCharNoDollar(c) ==
    \/ c \in Range(LowerAlpha)
    \/ c \in Range(UpperAlpha)
    \/ c \in Digits
    \/ c = "_"

\* isIdentifierChar: letters, digits, underscore and '$'
isIdentifierChar(c) ==
    \/ c \in Range(LowerAlpha)
    \/ c \in Range(UpperAlpha)
    \/ c \in Digits
    \/ c = "_"
    \/ c = "$"

\* strings.ToLower on one rune (ASCII letters only in the model's alphabet)
ToLowerChar(c) ==
    IF c \in Range(UpperAlpha)
    THEN LowerAlpha[CHOOSE i \in DOMAIN UpperAlpha : UpperAlpha[i] = c]
    ELSE c

ToLower(s) == [i \in DOMAIN s |-> ToLowerChar(s[i])]

HasPrefix(s, p) == Len(p) <= Len(s) /\ SubSeq(s, 1, Len(p)) = p

TrimPrefix(s, p) == IF HasPrefix(s, p) THEN SubSeq(s, Len(p) + 1, Len(s)) ELSE s

\* position (1-based) of the first element equal to c, 0 when there is none
IndexOfChar(s, c) ==
    IF \E i \in DOMAIN s : s[i] = c
    THEN CHOOSE i \in DOMAIN s : s[i] = c /\ \A j \in 1..(i - 1) : s[j] # c
    ELSE 0

\* strings.Split(s, sep) for a one-character separator
RECURSIVE Split(_, _)
Split(s, sep) ==
    LET k == IndexOfChar(s, sep)
    IN IF k = 0 THEN <<s>>
       ELSE <<SubSeq(s, 1, k - 1)>> \o Split(SubSeq(s, k + 1, Len(s)), sep)

\* segments joined by sep
RECURSIVE JoinWith(_, _)
JoinWith(segs, sep) ==
    IF segs = <<>> THEN <<>>
    ELSE IF Len(segs) = 1 THEN segs[1]
    ELSE segs[1] \o <<sep>> \o JoinWith(Tail(segs), sep)

----------------------------------------------------------------------------
(* Paths: path/filepath on a slash-separated system *)

Slash == "/"
Dot == <<".">>
DotDot == <<".", ".">>

IsAbs(p) == Len(p) > 0 /\ p[1] = Slash

\* the segments of a cleaned path: empty and "." segments dropped, ".."
\* resolved against the segment before it (kept at the front of a relative
\* path, dropped at the root of an absolute one)
RECURSIVE CleanSegs(_, _, _)
CleanSegs(segs, acc, rooted) ==
    IF segs = <<>> THEN acc
    ELSE LET s == Head(segs)
             rest == Tail(segs)
         IN IF s = <<>> \/ s = Dot THEN CleanSegs(rest, acc, rooted)
            ELSE IF s = DotDot
                 THEN IF acc # <<>> /\ acc[Len(acc)] # DotDot
                      THEN CleanSegs(rest, SubSeq(acc, 1, Len(acc) - 1), rooted)
                      ELSE IF rooted THEN CleanSegs(rest, acc, rooted)
                           ELSE CleanSegs(rest, Append(acc, s), rooted)
                 ELSE CleanSegs(rest, Append(acc, s), rooted)

\* filepath.Clean
Clean(p) ==
    IF p = <<>> THEN Dot
    ELSE LET rooted == IsAbs(p)
             segs == CleanSegs(Split(p, Slash), <<>>, rooted)
             body == JoinWith(segs, Slash)
         IN IF rooted THEN <<Slash>> \o body
            ELSE IF body = <<>> THEN Dot ELSE body

\* filepath.Join of two elements: empty elements are ignored, the result is
\* cleaned
Join(a, b) ==
    IF a = <<>> /\ b = <<>> THEN <<>>
    ELSE IF a = <<>> THEN Clean(b)
    ELSE IF b = <<>> THEN Clean(a)
    ELSE Clean(a \o <<Slash>> \o b)

\* filepath.Ext: the suffix of the last path element that starts at its
\* last dot
Ext(p) ==
    LET segs == Split(p, Slash)
        last == segs[Len(segs)]
        dots == {i \in DOMAIN last : last[i] = "."}
    IN IF dots = {} THEN <<>>
       ELSE LET k == CHOOSE i \in dots : \A j \in dots : j <= i
            IN SubSeq(last, k, Len(last))

\* segments of a cleaned path, "." counting as no segment
PathSegs(p) ==
    LET c == Clean(p)
    IN IF c = Dot THEN <<>>
       ELSE CleanSegs(Split(c, Slash), <<>>, IsAbs(c))

\* length of the longest common prefix of two segment lists
CommonLen(bs, ts) ==
    LET ok == {k \in 0..Len(bs) : k <= Len(ts) /\ \A i \in 1..k : bs[i] = ts[i]}
    IN CHOOSE k \in ok : \A j \in ok : j <= k

\* filepath.Rel(base, targ): [err, path]
Rel(base, targ) ==
    LET b == Clean(base)
        t == Clean(targ)
        bs == PathSegs(b)
        ts == PathSegs(t)
        k == CommonLen(bs, ts)
        up == [i \in 1..(Len(bs) - k) |-> DotDot]
        segs == up \o SubSeq(ts, k + 1, Len(ts))
    IN IF b = t THEN [err |-> FALSE, path |-> Dot]
       ELSE IF IsAbs(b) # IsAbs(t)
            THEN [err |-> TRUE, path |-> <<>>]
       ELSE IF \E i \in (k + 1)..Len(bs) : bs[i] = DotDot
            THEN [err |-> TRUE, path |-> <<>>]
       ELSE [err |-> FALSE, path |-> JoinWith(segs, Slash)]

FileScheme == <<"f","i","l","e",":","/","/">>

\* uriToPath: strips the file:// scheme, leaves any other string as it is
uriToPath(uri) ==
    IF HasPrefix(uri, FileScheme) THEN TrimPrefix(uri, FileScheme) ELSE uri

----------------------------------------------------------------------------
(* The workspace, the files on disk and the indexing tool (environment) *)

Root == <<"/","w">>
RootURI == FileScheme \o Root

FileA == <<"a",".","r","b">>
FileB == <<"b",".","r","b">>
FileC == <<"c",".","p","y">>
Files == {FileA, FileB, FileC}
\* the order in which a recursive scan walks the workspace
FileOrder == <<FileA, FileB, FileC>>

AbsOf(f) == Join(Root, f)
URIOf(f) == FileScheme \o AbsOf(f)

NameFoo == <<"F","o","o">>
NameFooBar == <<"F","o","o","B","a","r">>
NameBar == <<"b","a","r">>
NameBaz == <<"b","a","z">>

KindClass == <<"c","l","a","s","s">>
KindMethod == <<"m","e","t","h","o","d">>
KindFunction == <<"f","u","n","c","t","i","o","n">>
KindUnknown == <<"z","z">>

\* the contents a file can have on disk, by version; version 0 is "no such
\* file"
FileLines(f, v) ==
    IF f = FileA
    THEN IF v = 1 THEN <<NameFoo, <<" ">> \o NameBar, NameFooBar>>
         ELSE <<NameFoo>>
    ELSE IF f = FileB THEN <<NameBaz, NameFoo>>
    ELSE <<NameFoo, NameFooBar>>

FileContent(f, v) == JoinWith(FileLines(f, v), "\n")

TagEntry(name, path, kind, line) ==
    [Name |-> name, Path |-> path, Kind |-> kind, Line |-> line,
     Pattern |-> name, Scope |-> <<>>, ScopeKind |-> <<>>,
     TypeRef |-> <<>>, Language |-> <<>>]

\* a line of the tool's output: either a JSON object that decodes to an
\* entry, or text that does not decode
OutLine(e) == [valid |-> TRUE, entry |-> e]
BadLine == [valid |-> FALSE, entry |-> TagEntry(<<>>, <<>>, <<>>, 0)]

\* what ctags prints for one file, named `path` on its command line, when
\* the file has version v on disk
CtagsFile(f, path, v) ==
    IF v = 0 THEN <<>>
    ELSE IF f = FileA
    THEN IF v = 1
         THEN <<OutLine(TagEntry(NameFoo, path, KindClass, 1)),
                OutLine(TagEntry(NameBar, path, KindMethod, 2)),
                BadLine,
                OutLine(TagEntry(NameFooBar, path, KindFunction, 3))>>
         ELSE <<OutLine(TagEntry(NameFoo, path, KindClass, 1))>>
    ELSE IF f = FileB
    THEN <<OutLine(TagEntry(NameBaz, path, KindUnknown, 1)),
           OutLine(TagEntry(NameFoo, path, KindMethod, 2))>>
    ELSE <<OutLine(TagEntry(NameFoo, path, KindFunction, 1)),
           OutLine(TagEntry(NameFooBar, path, KindFunction, 2))>>

RECURSIVE CtagsRecursive(_, _)
CtagsRecursive(order, d) ==
    IF order = <<>> THEN <<>>
    ELSE CtagsFile(Head(order), Head(order), d[Head(order)])
         \o CtagsRecursive(Tail(order), d)

----------------------------------------------------------------------------
(* State *)

VARIABLES
    tagEntries,   \* Server.tagEntries
    rootPath,     \* Server.rootPath
    cache,        \* Server.cache.content: path -> lines
    mu,           \* Server.mu: 0 when free, else the goroutine holding it
    disk,         \* version of each file on disk
    diskWrites,   \* number of editor writes so far
    gs,           \* one goroutine per message read, in arrival order
    out,          \* frames written to stdout, in order
    running       \* FALSE once the process has exited

vars == <<tagEntries, rootPath, cache, mu, disk, diskWrites, gs, out, running>>

\* a Go map: a function on the keys it holds
EmptyMap == [k \in {} |-> <<>>]
MapPut(f, k, v) == [x \in DOMAIN f \cup {k} |-> IF x = k THEN v ELSE f[x]]

\* newTagfileKindMap
newTagfileKindMap ==
    [byLanguage |-> EmptyMap, any |-> EmptyMap, kindNames |-> {}]

NoId == 0

\* an RPCRequest after json.Unmarshal of the envelope; `ok` is whether its
\* params decode into the handler's parameter struct
Request(method, id, ok, uri, text, nchanges, line, char, query) ==
    [method |-> method, id |-> id, ok |-> ok, uri |-> uri, text |-> text,
     nchanges |-> nchanges, line |-> line, char |-> char, query |-> query]

\* a goroutine running handleRequest(server, m)
Goroutine(m, pc) ==
    [m |-> m, pc |-> pc, lines |-> <<>>, isAfterDot |-> FALSE, word |-> <<>>,
     relPath |-> <<>>, snap |-> <<>>, newEntries |-> <<>>, entries |-> <<>>,
     i |-> 0, acc |-> <<>>, tagfile |-> <<>>, kindMap |-> newTagfileKindMap]

\* a goroutine that has returned: nothing of it is left
NoRequest == Request("", NoId, FALSE, <<>>, <<>>, 0, 0, 0, <<>>)
Finished(g) == Goroutine(NoRequest, "done")

\* RPCResponse
\* (isIncomplete is the IsIncomplete of a CompletionList, which
\* handleCompletion always builds with false)
ResultFrame(id, kind, items) ==
    [id |-> id, code |-> 0, kind |-> kind, items |-> items,
     isIncomplete |-> FALSE]
ErrorFrame(id, code) ==
    [id |-> id, code |-> code, kind |-> "error", items |-> <<>>]

\* sendResponse: one frame written to stdout
sendResponse(frame) == out' = Append(out, frame)
sendResult(id, kind, items) == sendResponse(ResultFrame(id, kind, items))
sendError(id, code) == sendResponse(ErrorFrame(id, code))

Init ==
    /\ tagEntries = <<>>
    /\ rootPath = <<>>
    /\ cache = <<>>
    /\ mu = 0
    /\ disk = [f \in Files |-> IF f = FileC THEN 0 ELSE 1]
    /\ diskWrites = 0
    /\ gs = <<>>
    /\ out = <<>>
    /\ running = TRUE

----------------------------------------------------------------------------
(* Pure helpers of the handlers *)

CompletionItemKindText == 1
CompletionItemKindMethod == 2
CompletionItemKindFunction == 3
CompletionItemKindClass == 7
SymbolKindClass == 5
SymbolKindMethod == 6
SymbolKindFunction == 12

\* GetLSPCompletionKind: the kindMap lookup, Text when the kind is unmapped
\* (the rows of the table for the kinds the model's tool reports)
GetLSPCompletionKind(ctagsKind) ==
    IF ctagsKind = KindClass THEN CompletionItemKindClass
    ELSE IF ctagsKind = KindFunction THEN CompletionItemKindFunction
    ELSE IF ctagsKind = KindMethod THEN CompletionItemKindMethod
    ELSE CompletionItemKindText

\* GetLSPSymbolKind: [err, kind]
GetLSPSymbolKind(ctagsKind) ==
    IF ctagsKind = KindClass THEN [err |-> FALSE, kind |-> SymbolKindClass]
    ELSE IF ctagsKind = KindFunction THEN [err |-> FALSE, kind |-> SymbolKindFunction]
    ELSE IF ctagsKind = KindMethod THEN [err |-> FALSE, kind |-> SymbolKindMethod]
    ELSE [err |-> TRUE, kind |-> 0]

\* a rune the UTF-8 encoding of which takes two bytes
WideRune == "U+00E9"
ByteLen(c) == IF c = WideRune THEN 2 ELSE 1

RECURSIVE ByteCount(_)
ByteCount(s) == IF s = <<>> THEN 0 ELSE ByteLen(Head(s)) + ByteCount(Tail(s))

\* strings.Index(s, sub): the byte offset of the first occurrence, -1 when
\* there is none
Index(s, sub) ==
    LET at == {k \in 0..(Len(s) - Len(sub)) : SubSeq(s, k + 1, k + Len(sub)) = sub}
    IN IF at = {} THEN -1
       ELSE ByteCount(SubSeq(s, 1, CHOOSE k \in at : \A j \in at : k <= j))

\* mutant: the left boundary stays at the cursor
ScanLeftNone(runes, start) == start

\* the two boundary loops of getCurrentWord, on 0-based rune offsets
RECURSIVE ScanLeft(_, _)
ScanLeft(runes, start) ==
    IF start > 0 /\ isIdentifierChar(runes[start])
    THEN ScanLeft(runes, start - 1)
    ELSE start

RECURSIVE ScanRight(_, _)
ScanRight(runes, end) ==
    IF end < Len(runes) /\ isIdentifierChar(runes[end + 1])
    THEN ScanRight(runes, end + 1)
    ELSE end

\* getCurrentWord once the document's lines are at hand: [err, word]
WordAt(lines, line, char) ==
    IF line >= Len(lines) THEN [err |-> TRUE, word |-> <<>>]
    ELSE LET runes == lines[line + 1]
         IN IF char > Len(runes) THEN [err |-> TRUE, word |-> <<>>]
            ELSE LET start == ScanLeft(runes, char)
                     end == ScanRight(runes, char)
                 IN IF start = end THEN [err |-> TRUE, word |-> <<>>]
                    ELSE [err |-> FALSE, word |-> SubSeq(runes, start + 1, end)]

\* handleCompletion: is the rune before the cursor a period
IsAfterDot(lineContent, char) ==
    char > 0 /\ char - 1 < Len(lineContent) /\ lineContent[char] = "."

\* mutant: the name must equal the word
MatchesPrefixExact(name, word) == name = word

\* handleCompletion: the prefix test on a record's name
MatchesPrefix(name, word) == HasPrefix(ToLower(name), ToLower(word))

\* mutant: nothing is ever seen
SeenItemNever(seenItems, name) == FALSE

\* handleCompletion: the seenItems lookup
SeenItem(seenItems, name) == name \in seenItems

\* mutant: the test after a period is dropped
IncludeEntryNoDot(isAfterDot, kind, entryFileExt, currentFileExt) ==
    kind = CompletionItemKindText \/ entryFileExt = currentFileExt

\* mutant: away from a period only the document's extension counts
IncludeEntrySameExt(isAfterDot, kind, entryFileExt, currentFileExt) ==
    IF isAfterDot
    THEN (kind = CompletionItemKindMethod \/ kind = CompletionItemKindFunction)
         /\ entryFileExt = currentFileExt
    ELSE entryFileExt = currentFileExt

\* handleCompletion: includeEntry
IncludeEntry(isAfterDot, kind, entryFileExt, currentFileExt) ==
    IF isAfterDot
    THEN (kind = CompletionItemKindMethod \/ kind = CompletionItemKindFunction)
         /\ entryFileExt = currentFileExt
    ELSE kind = CompletionItemKindText \/ entryFileExt = currentFileExt

CompletionItem(entry, kind) ==
    [Label |-> entry.Name, Kind |-> kind, DetailPath |-> entry.Path,
     DetailLine |-> entry.Line, DetailKind |-> entry.Kind,
     Documentation |-> entry.Pattern]

\* handleCompletion: the loop over server.tagEntries
RECURSIVE CompletionLoop(_, _, _, _, _, _, _)
CompletionLoop(entries, word, isAfterDot, currentFileExt, root, seenItems, items) ==
    IF entries = <<>> THEN items
    ELSE LET entry == Head(entries)
             rest == Tail(entries)
             kind == GetLSPCompletionKind(entry.Kind)
             entryFileExt == Ext(Join(root, entry.Path))
         IN IF MatchesPrefix(entry.Name, word)
               /\ ~SeenItem(seenItems, entry.Name)
               /\ IncludeEntry(isAfterDot, kind, entryFileExt, currentFileExt)
            THEN CompletionLoop(rest, word, isAfterDot, currentFileExt, root,
                                seenItems \cup {entry.Name},
                                Append(items, CompletionItem(entry, kind)))
            ELSE CompletionLoop(rest, word, isAfterDot, currentFileExt, root,
                                seenItems, items)

\* the working directory of the process
Cwd == <<"/","h">>

\* filepath.Abs
Abs(p) == IF IsAbs(p) THEN Clean(p) ELSE Join(Cwd, p)

\* filepathToURI
filepathToURI(p) == FileScheme \o Abs(p)

RangeOf(sl, sc, el, ec) ==
    [StartLine |-> sl, StartChar |-> sc, EndLine |-> el, EndChar |-> ec]

\* findSymbolRangeInFile
findSymbolRangeInFile(lines, symbolName, lineNumber) ==
    LET lineIdx == lineNumber - 1
    IN IF lineIdx < 0 \/ lineIdx >= Len(lines)
       THEN RangeOf(lineIdx, 0, lineIdx, 0)
       ELSE LET lineContent == lines[lineIdx + 1]
                startChar == Index(lineContent, symbolName)
            IN IF startChar = -1
               THEN RangeOf(lineIdx, 0, lineIdx, Len(lineContent))
               ELSE RangeOf(lineIdx, startChar, lineIdx, startChar + Len(symbolName))

\* processTagsOutput: the scanner loop, decoding each output line and
\* normalising its path; a line that does not decode, or whose path cannot
\* be made relative, is skipped
\* mutant: the decoded entries keep the path the tool printed
DecodeOutputRaw(lines, root) ==
    LET v == SelectSeq(lines, LAMBDA l : l.valid)
    IN [i \in DOMAIN v |-> v[i].entry]

\* mutant: the scanner loop ends at the first line that does not decode
DecodeOutputStops(lines, root) ==
    LET bad == {i \in DOMAIN lines : ~lines[i].valid}
        n == IF bad = {} THEN Len(lines)
             ELSE (CHOOSE i \in bad : \A j \in bad : i <= j) - 1
    IN [i \in 1..n |-> lines[i].entry]

RECURSIVE DecodeOutput(_, _)
DecodeOutput(lines, root) ==
    IF lines = <<>> THEN <<>>
    ELSE LET l == Head(lines)
             rel == Rel(root, Join(root, l.entry.Path))
         IN IF ~l.valid \/ rel.err
            THEN DecodeOutput(Tail(lines), root)
            ELSE <<[l.entry EXCEPT !.Path = rel.path]>>
                 \o DecodeOutput(Tail(lines), root)

\* mutant: the removal loop keeps every entry
RemoveEntriesForNone(entries, relPath) == entries

\* scanSingleFileTag: the entries kept by the removal loop
RemoveEntriesFor(entries, relPath) ==
    SelectSeq(entries, LAMBDA e : e.Path # relPath)

----------------------------------------------------------------------------
(* What the client sends *)

\* request bodies with parameters that decode
TextOne == NameFoo \o <<".">> \o NameBar
TextTwo == NameBaz \o <<"\n">> \o NameFoo

\* handleRequest: the method names of the switch
HandlerTable ==
    {"initialize", "initialized", "shutdown", "exit",
     "textDocument/didOpen", "textDocument/didChange",
     "textDocument/didClose", "textDocument/didSave",
     "textDocument/completion", "textDocument/definition",
     "workspace/symbol", "textDocument/documentSymbol"}

\* method names that are not in the table: an unrelated one, and one that
\* differs from a table entry by case only
MethodUnknown == "$/cancelRequest"
MethodWrongCase == "Shutdown"

Methods == HandlerTable \cup {MethodUnknown, MethodWrongCase}

\* the well-formed parameter payloads of a method: didOpen carries TextOne,
\* didChange one of `texts` or no content change at all, didSave one of
\* `files`, completion and definition a cursor on line 0 of a.rb at one of
\* `chars`
ParamsOf(method, id, files, texts, chars) ==
    IF method = "initialize"
    THEN {Request(method, id, TRUE, RootURI, <<>>, 0, 0, 0, <<>>)}
    ELSE IF method = "textDocument/didOpen"
    THEN {Request(method, id, TRUE, URIOf(FileA), TextOne, 0, 0, 0, <<>>)}
    ELSE IF method = "textDocument/didChange"
    THEN {Request(method, id, TRUE, URIOf(FileA), t, 1, 0, 0, <<>>) : t \in texts}
         \cup {Request(method, id, TRUE, URIOf(FileA), <<>>, 0, 0, 0, <<>>)}
    ELSE IF method = "textDocument/didClose"
    THEN {Request(method, id, TRUE, URIOf(FileA), <<>>, 0, 0, 0, <<>>)}
    ELSE IF method = "textDocument/didSave"
    THEN {Request(method, id, TRUE, URIOf(f), <<>>, 0, 0, 0, <<>>) : f \in files}
    ELSE IF method \in {"textDocument/completion", "textDocument/definition"}
    THEN {Request(method, id, TRUE, URIOf(FileA), <<>>, 0, 0, c, <<>>) : c \in chars}
    ELSE IF method = "workspace/symbol"
    THEN {Request(method, id, TRUE, <<>>, <<>>, 0, 0, 0, NameFoo)}
    ELSE IF method = "textDocument/documentSymbol"
    THEN {Request(method, id, TRUE, URIOf(FileA), <<>>, 0, 0, 0, <<>>)}
    ELSE {Request(method, id, TRUE, <<>>, <<>>, 0, 0, 0, <<>>)}

\* the identifier the client gives its n-th message when it gives one
IdOf(n) == 100 + n

\* the methods whose handler decodes req.Params
DecodingMethods == HandlerTable \ {"initialized", "shutdown", "exit"}

\* the methods the protocol defines as requests, and two unknown ones
RequestMethods ==
    {"initialize", "shutdown", "textDocument/completion",
     "textDocument/definition", "workspace/symbol",
     "textDocument/documentSymbol", MethodUnknown, MethodWrongCase}

BadParams(method, id) == Request(method, id, FALSE, <<>>, <<>>, 0, 0, 0, <<>>)

\* every message the client may send as its n-th: any method, with
\* parameters that decode or do not; the request methods with an
\* identifier or (as a notification) without one
Payloads(method, id) ==
    ParamsOf(method, id, {FileA}, {TextTwo}, {4})
    \cup (IF method \in DecodingMethods THEN {BadParams(method, id)} ELSE {})

Inbox(n) ==
    UNION ({Payloads(method, NoId) : method \in Methods}
           \cup {Payloads(method, IdOf(n)) : method \in RequestMethods})

\* a client that only has the workspace indexed, saves files and searches
IndexInbox(n) ==
    {m \in Payloads("initialize", IdOf(n))
           \cup Payloads("textDocument/didSave", NoId)
           \cup Payloads("workspace/symbol", IdOf(n)) : m.ok}

\* a client that only edits one document and asks for completions in it
DocInbox(n) ==
    ParamsOf("textDocument/didOpen", NoId, {}, {}, {})
    \cup ParamsOf("textDocument/didChange", NoId, {}, {TextOne, TextTwo}, {})
    \cup ParamsOf("textDocument/didClose", NoId, {}, {}, {})
    \cup ParamsOf("textDocument/completion", IdOf(n), {}, {}, {2, 4})

----------------------------------------------------------------------------
(* The framer and the dispatcher *)

Procs == DOMAIN gs

At(g, method, pc) ==
    /\ running
    /\ g \in Procs
    /\ gs[g].m.method = method
    /\ gs[g].pc = pc

Update(g, rec) == gs' = [gs EXCEPT ![g] = rec]
Finish(g) == gs' = [gs EXCEPT ![g] = Finished(g)]

\* main: read one message, start handleRequest in its own goroutine
Spawn(m) ==
    /\ running
    /\ gs' = Append(gs, Goroutine(m, "start"))
    /\ UNCHANGED <<tagEntries, rootPath, cache, mu, disk, diskWrites, out, running>>

\* strconv.Atoi on an unsigned decimal: [err, n]
DigitChars == <<"0","1","2","3","4","5","6","7","8","9">>
RECURSIVE AtoiDigits(_, _)
AtoiDigits(s, n) ==
    IF s = <<>> THEN n
    ELSE AtoiDigits(Tail(s), 10 * n + IndexOfChar(DigitChars, Head(s)) - 1)
Atoi(s) ==
    IF s = <<>> \/ \E i \in DOMAIN s : s[i] \notin Range(DigitChars)
    THEN [err |-> TRUE, n |-> 0]
    ELSE [err |-> FALSE, n |-> AtoiDigits(s, 0)]

\* what stdin holds for one message: whether the header lines end before
\* the blank line (headerErr), the text after "Content-Length:", the
\* number of body bytes the stream still delivers, whether the body
\* decodes as an RPCRequest, and the request it decodes to
Frame(headerErr, clStr, avail, decodes, req) ==
    [headerErr |-> headerErr, clStr |-> clStr, avail |-> avail,
     decodes |-> decodes, req |-> req]

\* the length of the body of every message the client sends
BodyBytes == 42
BodyBytesStr == <<"4", "2">>

GoodFrame(m) == Frame(FALSE, BodyBytesStr, BodyBytes, TRUE, m)
\* the stream ends inside the header
TruncatedHeaderFrame == Frame(TRUE, <<>>, 0, FALSE, NoRequest)
\* Content-Length: 4x
BadLengthFrame == Frame(FALSE, <<"4", "x">>, BodyBytes, TRUE, NoRequest)
\* the stream ends one byte before the declared length
ShortBodyFrame == Frame(FALSE, BodyBytesStr, BodyBytes - 1, TRUE, NoRequest)
\* a complete body that is not the JSON of a request envelope
UndecodableFrame == Frame(FALSE, BodyBytesStr, BodyBytes, FALSE, NoRequest)

MalformedFrames == {TruncatedHeaderFrame, BadLengthFrame, ShortBodyFrame}

\* mutant: the error of strconv.Atoi is ignored
readMessageLenient(frame) ==
    IF frame.headerErr THEN [err |-> "header", req |-> NoRequest]
    ELSE IF frame.avail < Atoi(frame.clStr).n THEN [err |-> "body", req |-> NoRequest]
    ELSE IF ~frame.decodes THEN [err |-> "json", req |-> NoRequest]
    ELSE [err |-> "", req |-> frame.req]

\* readMessage: [err, req], err the empty string when a request is returned
readMessage(frame) ==
    IF frame.headerErr THEN [err |-> "header", req |-> NoRequest]
    ELSE IF Atoi(frame.clStr).err THEN [err |-> "length", req |-> NoRequest]
    ELSE IF frame.avail < Atoi(frame.clStr).n THEN [err |-> "body", req |-> NoRequest]
    ELSE IF ~frame.decodes THEN [err |-> "json", req |-> NoRequest]
    ELSE [err |-> "", req |-> frame.req]

\* main: one turn of the read loop; an error of readMessage is fatal
\* (log.Fatalf), a request is handed to a new goroutine
ReadFrame(frame) ==
    /\ running
    /\ LET r == readMessage(frame)
       IN IF r.err # ""
          THEN /\ running' = FALSE
               /\ UNCHANGED <<tagEntries, rootPath, cache, mu, disk, diskWrites,
                              gs, out>>
          ELSE Spawn(r.req)

\* the frames the client may send as its n-th
Frames(n) ==
    {GoodFrame(m) : m \in Inbox(n)}
    \cup MalformedFrames \cup {UndecodableFrame}

ReadMessage ==
    /\ Len(gs) < MaxMsgs
    /\ \E frame \in Frames(Len(gs) + 1) : ReadFrame(frame)

ReadIndexMessage ==
    /\ Len(gs) < MaxIndexMsgs
    /\ \E m \in IndexInbox(Len(gs) + 1) : Spawn(m)

ReadDocMessage ==
    /\ Len(gs) < MaxDocMsgs
    /\ \E m \in DocInbox(Len(gs) + 1) : Spawn(m)

\* the editor writes a new version of a file to disk
DiskWrite ==
    /\ running
    /\ diskWrites < MaxDiskWrites
    /\ disk[FileA] = 1
    /\ disk' = [disk EXCEPT ![FileA] = 2]
    /\ diskWrites' = diskWrites + 1
    /\ UNCHANGED <<tagEntries, rootPath, cache, mu, gs, out, running>>

\* mutant: the default arm answers with the code of an invalid request
handleUnknownInvalidRequest(g) ==
    /\ running
    /\ g \in Procs
    /\ gs[g].pc = "start"
    /\ gs[g].m.method \notin HandlerTable
    /\ sendError(gs[g].m.id, -32600)
    /\ Finish(g)
    /\ UNCHANGED <<tagEntries, rootPath, cache, mu, disk, diskWrites, running>>

\* handleRequest: the default arm of the switch
handleUnknown(g) ==
    /\ running
    /\ g \in Procs
    /\ gs[g].pc = "start"
    /\ gs[g].m.method \notin HandlerTable
    /\ sendError(gs[g].m.id, -32601)
    /\ Finish(g)
    /\ UNCHANGED <<tagEntries, rootPath, cache, mu, disk, diskWrites, running>>

handleInitialized(g) ==
    /\ At(g, "initialized", "start")
    /\ Finish(g)
    /\ UNCHANGED <<tagEntries, rootPath, cache, mu, disk, diskWrites, out, running>>

\* mutant: shutdown is handled like a notification
handleShutdownSilent(g) ==
    /\ At(g, "shutdown", "start")
    /\ Finish(g)
    /\ UNCHANGED <<tagEntries, rootPath, cache, mu, disk, diskWrites, out, running>>

handleShutdown(g) ==
    /\ At(g, "shutdown", "start")
    /\ sendResult(gs[g].m.id, "null", <<>>)
    /\ Finish(g)
    /\ UNCHANGED <<tagEntries, rootPath, cache, mu, disk, diskWrites, running>>

\* handleExit: os.Exit(0)
handleExit(g) ==
    /\ At(g, "exit", "start")
    /\ running' = FALSE
    /\ UNCHANGED <<tagEntries, rootPath, cache, mu, disk, diskWrites, gs, out>>

----------------------------------------------------------------------------
(* Document Cache *)

CacheHas(path) == path \in DOMAIN cache

\* mutant: an existing entry is overwritten in place, first line first, and
\* is seen with only its first line replaced
CachePutInPlace(path, lines) ==
    cache' = [p \in DOMAIN cache \cup {path} |->
                 IF p # path THEN cache[p]
                 ELSE IF path \in DOMAIN cache /\ cache[path] # <<>> /\ lines # <<>>
                      THEN <<lines[1]>> \o Tail(cache[path])
                      ELSE lines]

CachePut(path, lines) ==
    cache' = [p \in DOMAIN cache \cup {path} |->
                 IF p = path THEN lines ELSE cache[p]]

CacheDelete(path) ==
    cache' = [p \in DOMAIN cache \ {path} |-> cache[p]]

\* mutant: didOpen waits while the tool of a bulk ingestion runs
handleDidOpenAfterScan(g) ==
    /\ At(g, "textDocument/didOpen", "start")
    /\ \A k \in Procs : ~(gs[k].m.method = "initialize" /\ gs[k].pc = "tool")
    /\ IF gs[g].m.ok
       THEN CachePut(uriToPath(gs[g].m.uri), Split(gs[g].m.text, "\n"))
       ELSE UNCHANGED cache
    /\ Finish(g)
    /\ UNCHANGED <<tagEntries, rootPath, mu, disk, diskWrites, out, running>>

handleDidOpen(g) ==
    /\ At(g, "textDocument/didOpen", "start")
    /\ IF gs[g].m.ok
       THEN CachePut(uriToPath(gs[g].m.uri), Split(gs[g].m.text, "\n"))
       ELSE UNCHANGED cache
    /\ Finish(g)
    /\ UNCHANGED <<tagEntries, rootPath, mu, disk, diskWrites, out, running>>

handleDidChange(g) ==
    /\ At(g, "textDocument/didChange", "start")
    /\ IF gs[g].m.ok /\ gs[g].m.nchanges > 0
       THEN CachePut(uriToPath(gs[g].m.uri), Split(gs[g].m.text, "\n"))
       ELSE UNCHANGED cache
    /\ Finish(g)
    /\ UNCHANGED <<tagEntries, rootPath, mu, disk, diskWrites, out, running>>

\* mutant: didClose empties the cache
handleDidCloseAll(g) ==
    /\ At(g, "textDocument/didClose", "start")
    /\ IF gs[g].m.ok
       THEN cache' = <<>>
       ELSE UNCHANGED cache
    /\ Finish(g)
    /\ UNCHANGED <<tagEntries, rootPath, mu, disk, diskWrites, out, running>>

handleDidClose(g) ==
    /\ At(g, "textDocument/didClose", "start")
    /\ IF gs[g].m.ok
       THEN CacheDelete(uriToPath(gs[g].m.uri))
       ELSE UNCHANGED cache
    /\ Finish(g)
    /\ UNCHANGED <<tagEntries, rootPath, mu, disk, diskWrites, out, running>>

----------------------------------------------------------------------------
(* Ingestion: initialize (bulk scan) and didSave (per-file rescan) *)

IsRescan(g) == gs[g].m.method = "textDocument/didSave"
IsBulk(g) == gs[g].m.method = "initialize"

\* handleInitialize up to the start of scanRecursiveTags
handleInitialize(g) ==
    /\ At(g, "initialize", "start")
    /\ IF gs[g].m.ok
       THEN /\ rootPath' = uriToPath(gs[g].m.uri)
            /\ Update(g, [gs[g] EXCEPT !.pc = "tool"])
            /\ UNCHANGED out
       ELSE /\ sendError(gs[g].m.id, -32602)
            /\ Finish(g)
            /\ UNCHANGED rootPath
    /\ UNCHANGED <<tagEntries, cache, mu, disk, diskWrites, running>>

\* handleDidSave with undecodable params: nothing happens
handleDidSaveBadParams(g) ==
    /\ At(g, "textDocument/didSave", "start")
    /\ ~gs[g].m.ok
    /\ Finish(g)
    /\ UNCHANGED <<tagEntries, rootPath, cache, mu, disk, diskWrites, out, running>>

\* mutant: a save also drops the saved document from the cache
scanSingleFileTagRemoveEvicts(g) ==
    /\ At(g, "textDocument/didSave", "start")
    /\ gs[g].m.ok
    /\ mu = 0
    /\ CacheDelete(uriToPath(gs[g].m.uri))
    /\ LET rel == Rel(rootPath, uriToPath(gs[g].m.uri))
           newEntries == RemoveEntriesFor(tagEntries, rel.path)
       IN IF rel.err
          THEN /\ Finish(g)
               /\ UNCHANGED tagEntries
          ELSE /\ tagEntries' = newEntries
               /\ Update(g, [gs[g] EXCEPT !.pc = "tool", !.relPath = rel.path,
                                          !.snap = tagEntries,
                                          !.newEntries = newEntries])
    /\ UNCHANGED <<rootPath, mu, disk, diskWrites, out, running>>

\* handleDidSave -> scanSingleFileTag, the section under s.mu: the path is
\* made relative and the entries of that path are removed
scanSingleFileTagRemove(g) ==
    /\ At(g, "textDocument/didSave", "start")
    /\ gs[g].m.ok
    /\ mu = 0
    /\ LET rel == Rel(rootPath, uriToPath(gs[g].m.uri))
           newEntries == RemoveEntriesFor(tagEntries, rel.path)
       IN IF rel.err
          THEN /\ Finish(g)
               /\ UNCHANGED tagEntries
          ELSE /\ tagEntries' = newEntries
               /\ Update(g, [gs[g] EXCEPT !.pc = "tool", !.relPath = rel.path,
                                          !.snap = tagEntries,
                                          !.newEntries = newEntries])
    /\ UNCHANGED <<rootPath, cache, mu, disk, diskWrites, out, running>>

\* what the ctags command of goroutine g prints when it runs now
ToolOutput(g) ==
    IF IsBulk(g) THEN CtagsRecursive(FileOrder, disk)
    ELSE IF gs[g].relPath \in Files
         THEN CtagsFile(gs[g].relPath, gs[g].relPath, disk[gs[g].relPath])
         ELSE <<>>

\* mutant: processTagsOutput appends each record as soon as it is decoded
processTagsOutputRunStreaming(g) ==
    /\ running
    /\ g \in Procs
    /\ gs[g].pc = "tool"
    /\ mu = 0
    /\ tagEntries' = tagEntries \o DecodeOutput(ToolOutput(g), rootPath)
    /\ Update(g, [gs[g] EXCEPT !.pc = "append", !.entries = <<>>])
    /\ UNCHANGED <<rootPath, cache, mu, disk, diskWrites, out, running>>

\* processTagsOutput up to cmd.Wait, the tool succeeding: the decoded
\* entries are held locally
processTagsOutputRun(g) ==
    /\ running
    /\ g \in Procs
    /\ gs[g].pc = "tool"
    /\ Update(g, [gs[g] EXCEPT !.pc = "append",
                               !.entries = DecodeOutput(ToolOutput(g), rootPath)])
    /\ UNCHANGED <<tagEntries, rootPath, cache, mu, disk, diskWrites, out, running>>

\* mutant: handleInitialize ignores the error of scanRecursiveTags
processTagsOutputFailIgnored(g) ==
    /\ running
    /\ g \in Procs
    /\ gs[g].pc = "tool"
    /\ IF IsBulk(g)
       THEN sendResult(gs[g].m.id, "capabilities", <<>>)
       ELSE UNCHANGED out
    /\ Finish(g)
    /\ UNCHANGED <<tagEntries, rootPath, cache, mu, disk, diskWrites, running>>

\* mutant: a failed rescan puts the records it removed back
processTagsOutputFailRestores(g) ==
    /\ running
    /\ g \in Procs
    /\ gs[g].pc = "tool"
    /\ IF IsBulk(g)
       THEN /\ sendError(gs[g].m.id, -32603)
            /\ UNCHANGED tagEntries
       ELSE /\ tagEntries' = tagEntries
                    \o SelectSeq(gs[g].snap, LAMBDA e : e.Path = gs[g].relPath)
            /\ UNCHANGED out
    /\ Finish(g)
    /\ UNCHANGED <<rootPath, cache, mu, disk, diskWrites, running>>

\* processTagsOutput returning an error (the command does not start, its
\* output cannot be read, or it exits nonzero): handleInitialize answers
\* with an internal error, handleDidSave logs
processTagsOutputFail(g) ==
    /\ running
    /\ g \in Procs
    /\ gs[g].pc = "tool"
    /\ IF IsBulk(g)
       THEN sendError(gs[g].m.id, -32603)
       ELSE UNCHANGED out
    /\ Finish(g)
    /\ UNCHANGED <<tagEntries, rootPath, cache, mu, disk, diskWrites, running>>

\* processTagsOutput: the append under s.mu, and the return to the handler
processTagsOutputAppend(g) ==
    /\ running
    /\ g \in Procs
    /\ gs[g].pc = "append"
    /\ mu = 0
    /\ tagEntries' = tagEntries \o gs[g].entries
    /\ IF IsBulk(g)
       THEN sendResult(gs[g].m.id, "capabilities", <<>>)
       ELSE UNCHANGED out
    /\ Finish(g)
    /\ UNCHANGED <<rootPath, cache, mu, disk, diskWrites, running>>

----------------------------------------------------------------------------
(* Word at the cursor: getCurrentWord over GetOrLoadFileContent *)

IsCompletion(g) == gs[g].m.method = "textDocument/completion"
DocPath(g) == uriToPath(gs[g].m.uri)

\* readFileLines: [err, lines]
readFileLines(path) ==
    IF \E f \in Files : AbsOf(f) = path /\ disk[f] # 0
    THEN LET f == CHOOSE f \in Files : AbsOf(f) = path
         IN [err |-> FALSE, lines |-> Split(FileContent(f, disk[f]), "\n")]
    ELSE [err |-> TRUE, lines |-> <<>>]

\* the handler's continuation once getCurrentWord has returned r: without a
\* word, completion answers an empty list and definition answers null
AfterWord(g, r) ==
    IF r.err
    THEN /\ IF IsCompletion(g)
            THEN sendResult(gs[g].m.id, "completion", <<>>)
            ELSE sendResult(gs[g].m.id, "null", <<>>)
         /\ Finish(g)
    ELSE /\ Update(g, [gs[g] EXCEPT !.pc = IF IsCompletion(g) THEN "scan" ELSE "lock",
                                    !.word = r.word, !.lines = <<>>])
         /\ UNCHANGED out

\* GetOrLoadFileContent, the entry is in the cache
getCurrentWordCached(g) ==
    /\ running
    /\ g \in Procs
    /\ gs[g].pc = "word"
    /\ CacheHas(DocPath(g))
    /\ AfterWord(g, WordAt(cache[DocPath(g)], gs[g].m.line, gs[g].m.char))
    /\ UNCHANGED <<tagEntries, rootPath, cache, mu, disk, diskWrites, running>>

\* GetOrLoadFileContent, the entry is missing: the lock is released and the
\* file is read next
getCurrentWordMiss(g) ==
    /\ running
    /\ g \in Procs
    /\ gs[g].pc = "word"
    /\ ~CacheHas(DocPath(g))
    /\ Update(g, [gs[g] EXCEPT !.pc = "wload"])
    /\ UNCHANGED <<tagEntries, rootPath, cache, mu, disk, diskWrites, out, running>>

\* GetOrLoadFileContent: readFileLines
getCurrentWordLoad(g) ==
    /\ running
    /\ g \in Procs
    /\ gs[g].pc = "wload"
    /\ LET r == readFileLines(DocPath(g))
       IN IF r.err
          THEN AfterWord(g, [err |-> TRUE, word |-> <<>>])
          ELSE /\ Update(g, [gs[g] EXCEPT !.pc = "wstore", !.lines = r.lines])
               /\ UNCHANGED out
    /\ UNCHANGED <<tagEntries, rootPath, cache, mu, disk, diskWrites, running>>

\* mutant: the loaded lines are returned and not stored
getCurrentWordStoreSkipped(g) ==
    /\ running
    /\ g \in Procs
    /\ gs[g].pc = "wstore"
    /\ AfterWord(g, WordAt(gs[g].lines, gs[g].m.line, gs[g].m.char))
    /\ UNCHANGED <<tagEntries, rootPath, cache, mu, disk, diskWrites, running>>

\* GetOrLoadFileContent: the loaded lines are stored, then the word is cut
getCurrentWordStore(g) ==
    /\ running
    /\ g \in Procs
    /\ gs[g].pc = "wstore"
    /\ CachePut(DocPath(g), gs[g].lines)
    /\ AfterWord(g, WordAt(gs[g].lines, gs[g].m.line, gs[g].m.char))
    /\ UNCHANGED <<tagEntries, rootPath, mu, disk, diskWrites, running>>

----------------------------------------------------------------------------
(* completion *)

\* handleCompletion up to the call of getCurrentWord
handleCompletion(g) ==
    /\ At(g, "textDocument/completion", "start")
    /\ IF ~gs[g].m.ok
       THEN /\ sendError(gs[g].m.id, -32602)
            /\ Finish(g)
       ELSE IF ~CacheHas(DocPath(g)) \/ gs[g].m.line >= Len(cache[DocPath(g)])
       THEN /\ sendError(gs[g].m.id, -32603)
            /\ Finish(g)
       ELSE /\ Update(g, [gs[g] EXCEPT
                   !.pc = "word",
                   !.isAfterDot = IsAfterDot(cache[DocPath(g)][gs[g].m.line + 1],
                                             gs[g].m.char)])
            /\ UNCHANGED out
    /\ UNCHANGED <<tagEntries, rootPath, cache, mu, disk, diskWrites, running>>

\* the items handleCompletion builds from an index
CompletionItems(entries, word, isAfterDot, docPath, root) ==
    CompletionLoop(entries, word, isAfterDot, Ext(docPath), root, {}, <<>>)

\* handleCompletion: the loop over server.tagEntries (s.mu is not taken)
\* and the answer
handleCompletionScan(g) ==
    /\ running
    /\ g \in Procs
    /\ gs[g].pc = "scan"
    /\ sendResult(gs[g].m.id, "completion",
                  CompletionItems(tagEntries, gs[g].word, gs[g].isAfterDot,
                                  DocPath(g), rootPath))
    /\ Finish(g)
    /\ UNCHANGED <<tagEntries, rootPath, cache, mu, disk, diskWrites, running>>

----------------------------------------------------------------------------
(* definition, workspace/symbol, documentSymbol: loops under s.mu *)

IsDefinition(g) == gs[g].m.method = "textDocument/definition"
IsWorkspaceSymbol(g) == gs[g].m.method = "workspace/symbol"
IsDocumentSymbol(g) == gs[g].m.method = "textDocument/documentSymbol"

\* handleDefinition up to the call of getCurrentWord
handleDefinition(g) ==
    /\ At(g, "textDocument/definition", "start")
    /\ IF gs[g].m.ok
       THEN /\ Update(g, [gs[g] EXCEPT !.pc = "word"])
            /\ UNCHANGED out
       ELSE /\ sendError(gs[g].m.id, -32602)
            /\ Finish(g)
    /\ UNCHANGED <<tagEntries, rootPath, cache, mu, disk, diskWrites, running>>

\* handleWorkspaceSymbol, handleDocumentSymbol: params that do not decode
handleSymbolBadParams(g) ==
    /\ running
    /\ g \in Procs
    /\ gs[g].pc = "start"
    /\ IsWorkspaceSymbol(g) \/ IsDocumentSymbol(g)
    /\ ~gs[g].m.ok
    /\ sendError(gs[g].m.id, -32602)
    /\ Finish(g)
    /\ UNCHANGED <<tagEntries, rootPath, cache, mu, disk, diskWrites, running>>

\* server.mu.Lock() of the three handlers
lockIndex(g) ==
    /\ running
    /\ g \in Procs
    /\ \/ gs[g].pc = "lock"
       \/ /\ gs[g].pc = "start"
          /\ IsWorkspaceSymbol(g) \/ IsDocumentSymbol(g)
          /\ gs[g].m.ok
    /\ mu = 0
    /\ mu' = g
    /\ Update(g, [gs[g] EXCEPT !.pc = "loop", !.i = 1])
    /\ UNCHANGED <<tagEntries, rootPath, cache, disk, diskWrites, out, running>>

\* mutant: the symbol handlers keep the records of unmapped kinds
WantedAnyKind(g, e) ==
    IF IsDefinition(g) THEN e.Name = gs[g].word
    ELSE IF IsWorkspaceSymbol(g) THEN e.Name = gs[g].m.query
    ELSE Abs(Join(rootPath, e.Path)) = Abs(DocPath(g))

\* does the loop of g's handler go on to load the file of entry e
Wanted(g, e) ==
    IF IsDefinition(g) THEN e.Name = gs[g].word
    ELSE IF IsWorkspaceSymbol(g)
    THEN e.Name = gs[g].m.query /\ ~GetLSPSymbolKind(e.Kind).err
    ELSE /\ Abs(Join(rootPath, e.Path)) = Abs(DocPath(g))
         /\ ~GetLSPSymbolKind(e.Kind).err

\* index of the next entry, from position i on, whose file is loaded; 0
\* when the loop runs to its end
NextWanted(g) ==
    LET js == {j \in gs[g].i..Len(tagEntries) : Wanted(g, tagEntries[j])}
    IN IF js = {} THEN 0 ELSE CHOOSE j \in js : \A k \in js : j <= k

\* the path the loop hands to GetOrLoadFileContent
ContentPath(g, e) ==
    IF IsDocumentSymbol(g) THEN Abs(Join(rootPath, e.Path))
    ELSE Join(rootPath, e.Path)

\* the Location or SymbolInformation built for entry e
Emit(g, e, content) ==
    LET range == findSymbolRangeInFile(content, e.Name, e.Line)
        uri == filepathToURI(ContentPath(g, e))
    IN IF IsDefinition(g)
       THEN [Name |-> e.Name, Kind |-> 0, URI |-> uri, Range |-> range,
             ContainerName |-> <<>>]
       ELSE [Name |-> e.Name, Kind |-> GetLSPSymbolKind(e.Kind).kind,
             URI |-> uri, Range |-> range, ContainerName |-> e.Scope]

\* mutant: handleDefinition always answers with the list of locations
loopFinishList(g) ==
    /\ running
    /\ g \in Procs
    /\ gs[g].pc = "loop"
    /\ NextWanted(g) = 0
    /\ sendResult(gs[g].m.id, IF IsDefinition(g) THEN "locations" ELSE "symbols",
                  gs[g].acc)
    /\ mu' = 0
    /\ Finish(g)
    /\ UNCHANGED <<tagEntries, rootPath, cache, disk, diskWrites, running>>

\* mutant: the handler returns without the deferred Unlock
loopFinishHeld(g) ==
    /\ running
    /\ g \in Procs
    /\ gs[g].pc = "loop"
    /\ NextWanted(g) = 0
    /\ sendResult(gs[g].m.id, "symbols", gs[g].acc)
    /\ Finish(g)
    /\ UNCHANGED <<tagEntries, rootPath, cache, mu, disk, diskWrites, running>>

\* the loop has run out of entries: the answer is written and the deferred
\* Unlock runs. handleDefinition picks the shape by the number of locations
loopFinish(g) ==
    /\ running
    /\ g \in Procs
    /\ gs[g].pc = "loop"
    /\ NextWanted(g) = 0
    /\ IF IsDefinition(g)
       THEN IF Len(gs[g].acc) = 0 THEN sendResult(gs[g].m.id, "null", <<>>)
            ELSE IF Len(gs[g].acc) = 1
                 THEN sendResult(gs[g].m.id, "location", gs[g].acc)
                 ELSE sendResult(gs[g].m.id, "locations", gs[g].acc)
       ELSE sendResult(gs[g].m.id, "symbols", gs[g].acc)
    /\ mu' = 0
    /\ Finish(g)
    /\ UNCHANGED <<tagEntries, rootPath, cache, disk, diskWrites, running>>

\* GetOrLoadFileContent for the next wanted entry, found in the cache
loopCached(g) ==
    /\ running
    /\ g \in Procs
    /\ gs[g].pc = "loop"
    /\ NextWanted(g) # 0
    /\ LET j == NextWanted(g)
           e == tagEntries[j]
           path == ContentPath(g, e)
       IN /\ CacheHas(path)
          /\ Update(g, [gs[g] EXCEPT !.i = j + 1,
                                     !.acc = Append(@, Emit(g, e, cache[path]))])
    /\ UNCHANGED <<tagEntries, rootPath, cache, mu, disk, diskWrites, out, running>>

\* GetOrLoadFileContent for the next wanted entry, a cache miss
loopMiss(g) ==
    /\ running
    /\ g \in Procs
    /\ gs[g].pc = "loop"
    /\ NextWanted(g) # 0
    /\ LET j == NextWanted(g)
       IN /\ ~CacheHas(ContentPath(g, tagEntries[j]))
          /\ Update(g, [gs[g] EXCEPT !.i = j, !.pc = "lload"])
    /\ UNCHANGED <<tagEntries, rootPath, cache, mu, disk, diskWrites, out, running>>

\* readFileLines inside the loop; a file that cannot be read is logged and
\* its entry skipped
loopLoad(g) ==
    /\ running
    /\ g \in Procs
    /\ gs[g].pc = "lload"
    /\ LET r == readFileLines(ContentPath(g, tagEntries[gs[g].i]))
       IN IF r.err
          THEN Update(g, [gs[g] EXCEPT !.i = @ + 1, !.pc = "loop"])
          ELSE Update(g, [gs[g] EXCEPT !.lines = r.lines, !.pc = "lstore"])
    /\ UNCHANGED <<tagEntries, rootPath, cache, mu, disk, diskWrites, out, running>>

\* the loaded lines are stored in the cache and the entry is emitted
loopStore(g) ==
    /\ running
    /\ g \in Procs
    /\ gs[g].pc = "lstore"
    /\ LET e == tagEntries[gs[g].i]
       IN /\ CachePut(ContentPath(g, e), gs[g].lines)
          /\ Update(g, [gs[g] EXCEPT !.i = @ + 1, !.pc = "loop", !.lines = <<>>,
                                     !.acc = Append(@, Emit(g, e, gs[g].lines))])
    /\ UNCHANGED <<tagEntries, rootPath, mu, disk, diskWrites, out, running>>

----------------------------------------------------------------------------
(* The server *)

Ingest(g) ==
    \/ handleInitialize(g)
    \/ scanSingleFileTagRemove(g)
    \/ processTagsOutputRun(g)
    \/ processTagsOutputFail(g)
    \/ processTagsOutputAppend(g)

Locked(g) ==
    \/ lockIndex(g)
    \/ loopFinish(g)
    \/ loopCached(g)
    \/ loopMiss(g)
    \/ loopLoad(g)
    \/ loopStore(g)

Word(g) ==
    \/ getCurrentWordCached(g)
    \/ getCurrentWordMiss(g)
    \/ getCurrentWordLoad(g)
    \/ getCurrentWordStore(g)

Documents(g) ==
    \/ handleDidOpen(g)
    \/ handleDidChange(g)
    \/ handleDidClose(g)

Step(g) ==
    \/ handleUnknown(g)
    \/ handleInitialized(g)
    \/ handleShutdown(g)
    \/ handleExit(g)
    \/ handleDidSaveBadParams(g)
    \/ handleSymbolBadParams(g)
    \/ handleDefinition(g)
    \/ handleCompletion(g)
    \/ handleCompletionScan(g)
    \/ Documents(g)
    \/ Ingest(g)
    \/ Word(g)
    \/ Locked(g)

\* the server with a client that may send anything
Next ==
    \/ ReadMessage
    \/ \E g \in Procs : Step(g)

Spec == Init /\ [][Next]_vars

\* the server with a client that indexes, saves and searches, while the
\* editor rewrites files
NextIndex ==
    \/ ReadIndexMessage
    \/ DiskWrite
    \/ \E g \in Procs : Ingest(g) \/ Locked(g)

SpecIndex == Init /\ [][NextIndex]_vars

\* the server with a client that edits one document and completes in it
NextDocs ==
    \/ ReadDocMessage
    \/ \E g \in Procs :
          \/ Documents(g)
          \/ handleCompletion(g)
          \/ handleCompletionScan(g)
          \/ Word(g)

SpecDocs == Init /\ [][NextDocs]_vars

\* a client that opens, changes and closes documents and asks for
\* definitions in a document it may not have opened (a.rb is on disk,
\* c.py is not)
CacheInbox(n) ==
    {Request("textDocument/didOpen", NoId, TRUE, URIOf(FileA), TextOne, 0, 0, 0, <<>>),
     Request("textDocument/didOpen", NoId, TRUE, URIOf(FileB), TextTwo, 0, 0, 0, <<>>),
     Request("textDocument/didChange", NoId, TRUE, URIOf(FileA), TextTwo, 1, 0, 0, <<>>),
     Request("textDocument/didChange", NoId, TRUE, URIOf(FileA), <<>>, 0, 0, 0, <<>>),
     Request("textDocument/didClose", NoId, TRUE, URIOf(FileA), <<>>, 0, 0, 0, <<>>),
     Request("textDocument/definition", IdOf(n), TRUE, URIOf(FileA), <<>>, 0, 0, 0, <<>>),
     Request("textDocument/definition", IdOf(n), TRUE, URIOf(FileC), <<>>, 0, 0, 0, <<>>)}

ReadCacheMessage ==
    /\ Len(gs) < MaxCacheMsgs
    /\ \E m \in CacheInbox(Len(gs) + 1) : Spawn(m)

NextCache ==
    \/ ReadCacheMessage
    \/ \E g \in Procs :
          \/ Documents(g)
          \/ handleDefinition(g)
          \/ Word(g)
          \/ lockIndex(g)
          \/ loopFinish(g)

SpecCache == Init /\ [][NextCache]_vars

----------------------------------------------------------------------------
(* Paths of ingested records: the tool and the writer of a tags file may   *)
(* name a file in any style                                                *)

TagsName == <<"t","a","g","s">>

\* how a file f of the workspace /w is named in tool output or a tags file
PathStyles == {"plain", "dot", "abs", "up"}

StylePath(style, f) ==
    IF style = "dot" THEN <<".", "/">> \o f
    ELSE IF style = "abs" THEN AbsOf(f)
    ELSE IF style = "up" THEN <<".", ".", "/", "x", "/">> \o f
    ELSE f

Styled(lines, style) ==
    [i \in DOMAIN lines |->
        IF lines[i].valid
        THEN OutLine([lines[i].entry EXCEPT !.Path = StylePath(style, @)])
        ELSE lines[i]]

\* filepath.Dir of a cleaned path: all but its last element
Dir(p) ==
    LET slashes == {i \in DOMAIN p : p[i] = Slash}
    IN IF slashes = {} THEN Dot
       ELSE LET k == CHOOSE i \in slashes : \A j \in slashes : j <= i
            IN IF k = 1 THEN <<Slash>> ELSE SubSeq(p, 1, k - 1)

\* tagfilePathToRootRelative: [err, path]. A path of a tags file is taken
\* from the directory of the tags file unless it is absolute; a path that
\* cannot be expressed relative to the workspace root is an error
tagfilePathToRootRelative(root, tagsPath, path) ==
    Rel(root, IF IsAbs(path) THEN Clean(path) ELSE Join(Dir(tagsPath), path))

Tab == "\t"
Colon == ":"
Comma == ","
Bang == "!"
Whitespace == {" ", "\t", "\r", "\n"}

\* strings.Contains for a one-character substring
Contains(s, c) == IndexOfChar(s, c) # 0

\* strings.Cut for a one-character separator
Cut(s, sep) ==
    LET k == IndexOfChar(s, sep)
    IN IF k = 0
       THEN [found |-> FALSE, before |-> s, after |-> <<>>]
       ELSE [found |-> TRUE, before |-> SubSeq(s, 1, k - 1),
             after |-> SubSeq(s, k + 1, Len(s))]

TrimSuffix(s, suf) ==
    IF Len(suf) <= Len(s) /\ SubSeq(s, Len(s) - Len(suf) + 1, Len(s)) = suf
    THEN SubSeq(s, 1, Len(s) - Len(suf))
    ELSE s

\* strings.TrimSpace
TrimSpace(s) ==
    LET inked == {i \in DOMAIN s : s[i] \notin Whitespace}
    IN IF inked = {} THEN <<>>
       ELSE SubSeq(s, CHOOSE i \in inked : \A j \in inked : i <= j,
                      CHOOSE i \in inked : \A j \in inked : j <= i)

\* strconv.Itoa of a natural number
RECURSIVE Itoa(_)
Itoa(n) ==
    IF n < 10 THEN <<DigitChars[n + 1]>>
    ELSE Itoa(n \div 10) \o <<DigitChars[(n % 10) + 1]>>

DefaultLanguage == <<"d","e","f","a","u","l","t">>

\* tagfileKindMap.add
add(m, language, letter, kind) ==
    LET lang == IF language = <<>> THEN DefaultLanguage ELSE language
        byLang == IF lang \in DOMAIN m.byLanguage
                  THEN m.byLanguage[lang] ELSE EmptyMap
    IN [byLanguage |-> MapPut(m.byLanguage, lang, MapPut(byLang, letter, kind)),
        any |-> IF letter \in DOMAIN m.any THEN m.any
                ELSE MapPut(m.any, letter, kind),
        kindNames |-> m.kindNames \cup {kind}]

\* tagfileKindMap.resolve: [ok, kind]
resolve(m, language, letter) ==
    IF /\ language # <<>>
       /\ language \in DOMAIN m.byLanguage
       /\ letter \in DOMAIN m.byLanguage[language]
    THEN [ok |-> TRUE, kind |-> m.byLanguage[language][letter]]
    ELSE IF letter \in DOMAIN m.any
         THEN [ok |-> TRUE, kind |-> m.any[letter]]
         ELSE [ok |-> FALSE, kind |-> <<>>]

\* tagfileKindMap.isKindName
isKindName(m, kind) == kind \in m.kindNames

TagKindDescription ==
    <<"!","_","T","A","G","_","K","I","N","D","_",
      "D","E","S","C","R","I","P","T","I","O","N">>

\* parseTagfileKindDescription: the kind map after a header line
parseTagfileKindDescription(line, kindMap) ==
    LET fields == Split(line, Tab)
        rest == TrimPrefix(fields[1], TagKindDescription)
        language == IF HasPrefix(rest, <<Bang>>) THEN Tail(rest) ELSE <<>>
        parts == Cut(fields[2], Comma)
    IN IF ~HasPrefix(line, TagKindDescription) \/ Len(fields) < 2
       THEN kindMap
       ELSE IF ~parts.found \/ parts.before = <<>> \/ parts.after = <<>>
            THEN kindMap
            ELSE add(kindMap, language, parts.before, parts.after)

\* mutant: a kind letter is never resolved
resolveTagfileKindRaw(kindField, entry, kindMap) == kindField

\* resolveTagfileKind

resolveTagfileKind(kindField, entry, kindMap) ==
    LET r == resolve(kindMap, entry.Language, kindField)
    IN IF Len(kindField) # 1 THEN kindField
       ELSE IF r.ok THEN r.kind ELSE kindField

KeyLine == <<"l","i","n","e">>
KeyLanguage == <<"l","a","n","g","u","a","g","e">>
KeyKind == <<"k","i","n","d">>
KeyTyperef == <<"t","y","p","e","r","e","f">>
KeyScope == <<"s","c","o","p","e">>
KeyScopeKind == <<"s","c","o","p","e","K","i","n","d">>

\* mutant: a field with a kind name as its key sets the scope even when
\* the record has one already
parseTagfileFieldLastWins(field, acc, kindMap) ==
    LET c == Cut(field, Colon)
        key == c.before
        value == c.after
        n == Atoi(value)
    IN IF field = <<>> \/ ~c.found THEN acc
       ELSE IF key = KeyLine
            THEN IF n.err THEN acc ELSE [acc EXCEPT !.entry.Line = n.n]
       ELSE IF key = KeyLanguage THEN [acc EXCEPT !.entry.Language = value]
       ELSE IF key = KeyKind THEN [acc EXCEPT !.kindField = value]
       ELSE IF key = KeyTyperef THEN [acc EXCEPT !.entry.TypeRef = value]
       ELSE IF key = KeyScope THEN [acc EXCEPT !.entry.Scope = value]
       ELSE IF key = KeyScopeKind THEN [acc EXCEPT !.entry.ScopeKind = value]
       ELSE IF isKindName(kindMap, key)
            THEN [acc EXCEPT !.entry.ScopeKind = key, !.entry.Scope = value]
            ELSE acc

\* parseTagfileEntry, one iteration of its loop over the extension
\* fields: acc is [entry, kindField]
parseTagfileField(field, acc, kindMap) ==
    LET c == Cut(field, Colon)
        key == c.before
        value == c.after
        n == Atoi(value)
    IN IF field = <<>> \/ ~c.found THEN acc
       ELSE IF key = KeyLine
            THEN IF n.err THEN acc ELSE [acc EXCEPT !.entry.Line = n.n]
       ELSE IF key = KeyLanguage THEN [acc EXCEPT !.entry.Language = value]
       ELSE IF key = KeyKind THEN [acc EXCEPT !.kindField = value]
       ELSE IF key = KeyTyperef THEN [acc EXCEPT !.entry.TypeRef = value]
       ELSE IF key = KeyScope THEN [acc EXCEPT !.entry.Scope = value]
       ELSE IF key = KeyScopeKind THEN [acc EXCEPT !.entry.ScopeKind = value]
       ELSE IF /\ acc.entry.Scope = <<>>
               /\ acc.entry.ScopeKind = <<>>
               /\ isKindName(kindMap, key)
            THEN [acc EXCEPT !.entry.ScopeKind = key, !.entry.Scope = value]
            ELSE acc

RECURSIVE parseTagfileFields(_, _, _)
parseTagfileFields(fields, acc, kindMap) ==
    IF fields = <<>> THEN acc
    ELSE parseTagfileFields(Tail(fields),
                            parseTagfileField(Head(fields), acc, kindMap),
                            kindMap)

\* parseTagfileEntry: [ok, entry]
parseTagfileEntry(line, tagsPath, root, kindMap) ==
    LET fields == Split(line, Tab)
        bare == Len(fields) > 3 /\ ~Contains(fields[4], Colon)
        first == [entry |-> [TagEntry(fields[1], fields[2], <<>>, 0) EXCEPT
                               !.Pattern = TrimSuffix(fields[3], <<";", "\"">>)],
                  kindField |-> IF bare THEN fields[4] ELSE <<>>]
        acc == parseTagfileFields(SubSeq(fields, IF bare THEN 5 ELSE 4, Len(fields)),
                                  first, kindMap)
        n == Atoi(acc.entry.Pattern)
        lined == IF acc.entry.Line = 0 /\ ~n.err
                 THEN [acc.entry EXCEPT !.Line = n.n] ELSE acc.entry
        kinded == IF acc.kindField # <<>>
                  THEN [lined EXCEPT
                          !.Kind = resolveTagfileKind(acc.kindField, lined, kindMap)]
                  ELSE lined
        rel == tagfilePathToRootRelative(root, tagsPath, fields[2])
    IN IF Len(fields) < 3 \/ rel.err
       THEN [ok |-> FALSE, entry |-> BadLine.entry]
       ELSE [ok |-> TRUE, entry |-> [kinded EXCEPT !.Path = rel.path]]

\* parseTagfile up to its loop: the tags file is opened, the kind map and
\* the entries are empty
parseTagfileOpen(g, lines) ==
    /\ running
    /\ g \in Procs
    /\ gs[g].pc = "tool"
    /\ IsBulk(g)
    /\ Update(g, [gs[g] EXCEPT !.pc = "tagfile", !.tagfile = lines, !.i = 0,
                               !.kindMap = newTagfileKindMap, !.entries = <<>>])
    /\ UNCHANGED <<tagEntries, rootPath, cache, mu, disk, diskWrites, out, running>>

\* parseTagfile, one iteration of its loop: a blank line is skipped, a
\* header line goes to the kind map, a data line gives an entry or nothing
parseTagfileScan(g) ==
    /\ running
    /\ g \in Procs
    /\ gs[g].pc = "tagfile"
    /\ gs[g].i < Len(gs[g].tagfile)
    /\ LET line == gs[g].tagfile[gs[g].i + 1]
           trimmed == TrimSpace(line)
           r == parseTagfileEntry(line, Join(rootPath, TagsName), rootPath,
                                  gs[g].kindMap)
           next == [gs[g] EXCEPT !.i = @ + 1]
       IN IF trimmed = <<>> THEN Update(g, next)
          ELSE IF HasPrefix(trimmed, <<Bang>>)
               THEN Update(g, [next EXCEPT
                                 !.kindMap = parseTagfileKindDescription(trimmed, @)])
               ELSE IF r.ok
                    THEN Update(g, [next EXCEPT !.entries = Append(@, r.entry)])
                    ELSE Update(g, next)
    /\ UNCHANGED <<tagEntries, rootPath, cache, mu, disk, diskWrites, out, running>>

\* parseTagfile returning its entries, which the bulk ingestion appends to
\* the index as it appends the entries of the tool
parseTagfileReturn(g) ==
    /\ running
    /\ g \in Procs
    /\ gs[g].pc = "tagfile"
    /\ gs[g].i = Len(gs[g].tagfile)
    /\ Update(g, [gs[g] EXCEPT !.pc = "append"])
    /\ UNCHANGED <<tagEntries, rootPath, cache, mu, disk, diskWrites, out, running>>

\* processTagsOutput up to cmd.Wait, the tool naming files in any style
processTagsOutputStyled(g) ==
    /\ running
    /\ g \in Procs
    /\ gs[g].pc = "tool"
    /\ \E style \in PathStyles :
          Update(g, [gs[g] EXCEPT
                       !.pc = "append",
                       !.entries = DecodeOutput(Styled(ToolOutput(g), style),
                                                rootPath)])
    /\ UNCHANGED <<tagEntries, rootPath, cache, mu, disk, diskWrites, out, running>>

LangRuby == <<"R","u","b","y">>
LangPython == <<"P","y","t","h","o","n">>

\* the language ctags gives a file
LanguageOf(path) == IF Ext(path) = <<".","p","y">> THEN LangPython ELSE LangRuby

\* the letter ctags writes for a kind of a language: in Ruby c is a class
\* and f a method, in Python c is a class, f a function and m a method; a
\* kind without a letter is written in full
KindLetter(language, kind) ==
    IF kind = KindClass THEN <<"c">>
    ELSE IF language = LangRuby /\ kind = KindMethod THEN <<"f">>
    ELSE IF language = LangPython /\ kind = KindFunction THEN <<"f">>
    ELSE IF language = LangPython /\ kind = KindMethod THEN <<"m">>
    ELSE kind

\* a kind description header of a tags file
HeaderLine(language, letter, kind) ==
    TagKindDescription
    \o (IF language = <<>> THEN <<>> ELSE <<Bang>> \o language)
    \o <<Tab>> \o letter \o <<Comma>> \o kind \o <<Tab, "/", "d", "/">>

\* a data line of a tags file for entry e, with the fields `extra`
DataLine(e, extra) ==
    JoinWith(<<e.Name, e.Path, <<"/", "^">> \o e.Pattern \o <<"$", "/", ";", "\"">>,
               KindLetter(LanguageOf(e.Path), e.Kind)>> \o extra, Tab)

LineField(e) == KeyLine \o <<Colon>> \o Itoa(e.Line)
LanguageField(e) == KeyLanguage \o <<Colon>> \o LanguageOf(e.Path)

\* the headers ctags writes for the kinds of Ruby and of Python
RubyHeaders ==
    <<HeaderLine(LangRuby, <<"c">>, KindClass),
      HeaderLine(LangRuby, <<"f">>, KindMethod)>>
PythonHeaders ==
    <<HeaderLine(LangPython, <<"c">>, KindClass),
      HeaderLine(LangPython, <<"f">>, KindFunction),
      HeaderLine(LangPython, <<"m">>, KindMethod)>>

\* the tags file ctags writes for the output lines `lines`; a line that
\* does not decode is written as a line of one field
TagfileOf(headers, lines) ==
    headers \o [i \in DOMAIN lines |->
                   IF lines[i].valid
                   THEN DataLine(lines[i].entry,
                                 <<LineField(lines[i].entry),
                                   LanguageField(lines[i].entry)>>)
                   ELSE <<"x">>]

\* the tags files of the workspace, its files named in any style
PathTagfiles ==
    {TagfileOf(RubyHeaders, Styled(CtagsFile(FileA, FileA, 1), style)) :
        style \in PathStyles}

\* a client that names its workspace root as a file URI, as a relative
\* path or not at all, and saves a file; it sends a message when the one
\* before has been handled
PathsInbox(n) ==
    {Request("initialize", IdOf(n), TRUE, uri, <<>>, 0, 0, 0, <<>>) :
        uri \in {RootURI, <<"w">>, FileScheme}}
    \cup {Request("textDocument/didSave", NoId, TRUE, URIOf(FileA), <<>>, 0, 0, 0, <<>>)}

ReadPathsMessage ==
    /\ Len(gs) < MaxPathMsgs
    /\ \A g \in Procs : gs[g].pc = "done"
    /\ \E m \in PathsInbox(Len(gs) + 1) : Spawn(m)

NextPaths ==
    \/ ReadPathsMessage
    \/ \E g \in Procs :
          \/ handleInitialize(g)
          \/ scanSingleFileTagRemove(g)
          \/ processTagsOutputStyled(g)
          \/ \E lines \in PathTagfiles : parseTagfileOpen(g, lines)
          \/ parseTagfileScan(g)
          \/ parseTagfileReturn(g)
          \/ processTagsOutputAppend(g)

SpecPaths == Init /\ [][NextPaths]_vars

----------------------------------------------------------------------------
(* Tags files: kind description headers in any order, then data lines      *)

\* kind description headers: for no language, for Ruby (the letter f
\* described twice) and for Python
KindHeaders ==
    {HeaderLine(<<>>, <<"f">>, KindFunction),
     HeaderLine(LangRuby, <<"f">>, KindMethod),
     HeaderLine(LangRuby, <<"f">>, KindFunction),
     HeaderLine(LangRuby, <<"c">>, KindClass),
     HeaderLine(LangPython, <<"f">>, KindFunction)}

\* the sequences of length at most n over the set S
RECURSIVE SeqsAtMost(_, _)
SeqsAtMost(S, n) ==
    IF n = 0 THEN {<<>>}
    ELSE LET shorter == SeqsAtMost(S, n - 1)
         IN shorter \cup {Append(q, x) : q \in shorter, x \in S}

\* data lines with the kind letter f or c, for a Python file, with and
\* without a language field
KindDataLines ==
    {DataLine(TagEntry(NameFoo, FileC, kind, 1), extra) :
        kind \in {KindFunction, KindClass},
        extra \in {<<>>, <<KeyLanguage \o <<Colon>> \o LangPython>>}}

\* tags files of some headers and one data line
KindTagfiles ==
    {h \o <<d>> : h \in SeqsAtMost(KindHeaders, MaxHeaders), d \in KindDataLines}

\* the symbols of a workspace, as ctags knows them
Symbols ==
    {TagEntry(NameFoo, FileA, KindClass, 1),
     TagEntry(NameBar, <<".", "/">> \o FileA, KindMethod, 2),
     TagEntry(NameFoo, FileC, KindFunction, 1),
     TagEntry(NameBaz, FileC, KindMethod, 3)}

SymbolLists == SeqsAtMost(Symbols, MaxSymbols)

\* the extension fields ctags is asked to write on a data line
FieldChoices == SUBSET {"line", "language"}

ExtraFields(e, choice) ==
    (IF "line" \in choice THEN <<LineField(e)>> ELSE <<>>)
    \o (IF "language" \in choice THEN <<LanguageField(e)>> ELSE <<>>)

\* the tags file ctags writes for a list of symbols: the headers of every
\* language, then one data line for each symbol
FormatTagfile(symbols, choice) ==
    RubyHeaders \o PythonHeaders
    \o [i \in DOMAIN symbols |-> DataLine(symbols[i], ExtraFields(symbols[i], choice))]

FormatTagfiles ==
    {FormatTagfile(symbols, choice) :
        symbols \in SymbolLists, choice \in FieldChoices}

\* what ctags prints for a list of symbols in its streaming format
StreamOf(symbols) == [i \in DOMAIN symbols |-> OutLine(symbols[i])]

\* a client that sends initialize, once, to have its workspace indexed
\* from a tags file
\* extension fields of a data line: two whose key is a kind name of Ruby,
\* an explicit scope, an explicit scope kind and a line number
MaxFields == 2

ScopeFields ==
    {KindClass \o <<Colon>> \o NameFoo,
     KindMethod \o <<Colon>> \o NameBaz,
     KeyScope \o <<Colon>> \o NameFooBar,
     KeyScopeKind \o <<Colon>> \o KindFunction,
     KeyLine \o <<Colon>> \o Itoa(2)}

\* tags files with one data line, for the method bar of a.rb, that carries
\* some of these fields and stands behind none, one or both of the Ruby
\* headers, the others following it
ScopeTagfiles ==
    {SubSeq(RubyHeaders, 1, k)
     \o <<DataLine(TagEntry(NameBar, FileA, KindMethod, 2), extra)>>
     \o SubSeq(RubyHeaders, k + 1, Len(RubyHeaders)) :
        k \in 0..Len(RubyHeaders), extra \in SeqsAtMost(ScopeFields, MaxFields)}

\* address fields of a data line: a literal line number, a search pattern
\* with a run of digits in it and one without
Addresses ==
    {<<"2", ";", "\"">>,
     <<"/", "^", "v", "1", "2", "$", "/", ";", "\"">>,
     <<"/", "^", "F", "o", "o", "$", "/", ";", "\"">>}

\* tags files of one data line for the class Foo of a.rb with one of these
\* addresses, with and without an explicit line field
AddressTagfiles ==
    {<<JoinWith(<<NameFoo, FileA, address, <<"c">> >> \o extra, Tab)>> :
        address \in Addresses,
        extra \in {<<>>, <<KeyLine \o <<Colon>> \o Itoa(1)>>}}

ReadTagfileMessage ==
    /\ gs = <<>>
    /\ Spawn(Request("initialize", IdOf(1), TRUE, RootURI, <<>>, 0, 0, 0, <<>>))

NextTagfile ==
    \/ ReadTagfileMessage
    \/ \E g \in Procs :
          \/ handleInitialize(g)
          \/ \E lines \in KindTagfiles \cup FormatTagfiles
                           \cup ScopeTagfiles \cup AddressTagfiles :
                parseTagfileOpen(g, lines)
          \/ parseTagfileScan(g)
          \/ parseTagfileReturn(g)
          \/ processTagsOutputAppend(g)

SpecTagfile == Init /\ [][NextTagfile]_vars

----------------------------------------------------------------------------
(* Queries on a given index: the state after an initialize that ingested   *)
(* some records and a didOpen of a.rb, then one query                      *)

NameLowerFoo == <<"f","o","o">>
NameBarBaz == <<"b","a","r","_","b","a","z">>

\* the open document: "foo.bar_baz" and "a.Foo"
QueryLineOne == NameLowerFoo \o <<".">> \o NameBarBaz
QueryLineTwo == <<"a", ".">> \o NameFoo
QueryText == QueryLineOne \o <<"\n">> \o QueryLineTwo

\* records of the document's own file, of every category, and records of
\* a file with another extension
QueryRecords ==
    {TagEntry(name, FileA, kind, 1) :
        name \in {NameFoo, NameFooBar},
        kind \in {KindMethod, KindClass, KindUnknown}}
    \cup {TagEntry(NameFoo, FileC, kind, 1) : kind \in {KindMethod, KindUnknown}}

SeqsUpTo(S, n) == UNION {[1..k -> S] : k \in 0..n}

\* cursors: on line 0 the start, the period, the rune after it and one
\* past the end of the line; on line 1 the rune after the period and the
\* end of the line; and a line past the end of the document
QueryCursors ==
    {<<0, 0>>, <<0, 3>>, <<0, 4>>, <<0, Len(QueryLineOne) + 1>>,
     <<1, 2>>, <<1, 5>>, <<2, 0>>}

QueryInbox(n) ==
    {Request("textDocument/completion", IdOf(n), TRUE, URIOf(FileA), <<>>, 0,
             p[1], p[2], <<>>) : p \in QueryCursors}
    \cup {Request("textDocument/definition", IdOf(n), TRUE, URIOf(FileA), <<>>, 0,
                  p[1], p[2], <<>>) : p \in {<<0, 3>>, <<1, 2>>, <<2, 0>>}}
    \cup {Request("workspace/symbol", IdOf(n), TRUE, <<>>, <<>>, 0, 0, 0, q) :
              q \in {NameFoo, NameLowerFoo}}

QueryInit ==
    /\ tagEntries \in SeqsUpTo(QueryRecords, MaxRecords)
    /\ rootPath = Root
    /\ cache = [p \in {AbsOf(FileA)} |-> Split(QueryText, "\n")]
    /\ mu = 0
    /\ disk = [f \in Files |-> 1]
    /\ diskWrites = 0
    /\ gs = <<>>
    /\ out = <<>>
    /\ running = TRUE

\* the client of this specification waits for the answer to a query before
\* it sends the next one
ReadQueryMessage ==
    /\ Len(gs) < MaxQueries
    /\ \A g \in Procs : gs[g].pc = "done"
    /\ \E m \in QueryInbox(Len(gs) + 1) : Spawn(m)

NextQuery ==
    \/ ReadQueryMessage
    \/ \E g \in Procs :
          \/ handleCompletion(g)
          \/ handleCompletionScan(g)
          \/ handleDefinition(g)
          \/ getCurrentWordCached(g)
          \/ Locked(g)

SpecQuery == QueryInit /\ [][NextQuery]_vars

----------------------------------------------------------------------------
(* Definitions on a given index: records of the open document a.rb, of    *)
(* b.rb, which is on disk and not open, and of c.py, which is not on disk *)

DefRecords ==
    {TagEntry(NameFoo, FileA, KindClass, 1),
     TagEntry(NameFoo, FileA, KindMethod, 2),
     TagEntry(NameFoo, FileB, KindMethod, 2),
     TagEntry(NameFoo, FileC, KindFunction, 1),
     TagEntry(NameFooBar, FileA, KindFunction, 3)}

\* the cursor on "foo" of the first line and on "Foo" of the second
DefCursors == {<<0, 1>>, <<1, 2>>}

DefsInit ==
    /\ tagEntries \in SeqsUpTo(DefRecords, MaxRecords)
    /\ rootPath = Root
    /\ cache = [p \in {AbsOf(FileA)} |-> Split(QueryText, "\n")]
    /\ mu = 0
    /\ disk = [f \in Files |-> IF f = FileC THEN 0 ELSE 1]
    /\ diskWrites = 0
    /\ gs = <<>>
    /\ out = <<>>
    /\ running = TRUE

\* the client waits for the answer to a definition request before it sends
\* the next one
ReadDefsMessage ==
    /\ Len(gs) < MaxQueries
    /\ \A g \in Procs : gs[g].pc = "done"
    /\ \E p \in DefCursors :
          Spawn(Request("textDocument/definition", IdOf(Len(gs) + 1), TRUE,
                        URIOf(FileA), <<>>, 0, p[1], p[2], <<>>))

NextDefs ==
    \/ ReadDefsMessage
    \/ \E g \in Procs :
          \/ handleDefinition(g)
          \/ getCurrentWordCached(g)
          \/ Locked(g)

SpecDefs == DefsInit /\ [][NextDefs]_vars

----------------------------------------------------------------------------
(* Symbols: workspace/symbol and documentSymbol on a given index *)

MaxSymbolMsgs == 1

\* records of the open document a.rb (a class, a method in the scope of
\* the class, a record of an unmapped kind), of b.rb, on disk and not
\* open, and of c.py, which is not on disk
SymbolRecords ==
    {TagEntry(NameFoo, FileA, KindClass, 2),
     [TagEntry(NameBar, FileA, KindMethod, 1) EXCEPT !.Scope = NameFoo,
                                                     !.ScopeKind = KindClass],
     TagEntry(NameFoo, FileA, KindUnknown, 2),
     TagEntry(NameFoo, FileB, KindMethod, 2),
     TagEntry(NameFoo, FileC, KindFunction, 1)}

\* the URI of a.rb written with a "." segment
DottedURI == FileScheme \o Root \o <<"/", ".", "/">> \o FileA

SymbolInbox(n) ==
    {Request("workspace/symbol", IdOf(n), TRUE, <<>>, <<>>, 0, 0, 0, q) :
        q \in {NameFoo, NameBar}}
    \cup {Request("textDocument/documentSymbol", IdOf(n), TRUE, uri, <<>>, 0,
                  0, 0, <<>>) :
              uri \in {URIOf(FileA), DottedURI, URIOf(FileB), URIOf(FileC)}}

SymbolsInit ==
    /\ tagEntries \in SeqsUpTo(SymbolRecords, MaxRecords)
    /\ rootPath = Root
    /\ cache = [p \in {AbsOf(FileA)} |-> Split(QueryText, "\n")]
    /\ mu = 0
    /\ disk = [f \in Files |-> IF f = FileC THEN 0 ELSE 1]
    /\ diskWrites = 0
    /\ gs = <<>>
    /\ out = <<>>
    /\ running = TRUE

ReadSymbolMessage ==
    /\ Len(gs) < MaxSymbolMsgs
    /\ \E m \in SymbolInbox(Len(gs) + 1) : Spawn(m)

NextSymbols ==
    \/ ReadSymbolMessage
    \/ \E g \in Procs : Locked(g)

SpecSymbols == SymbolsInit /\ [][NextSymbols]_vars

----------------------------------------------------------------------------
(* Words: getCurrentWord on every short line of a small alphabet *)

MaxLineLen == 3

\* a letter, a digit, the underscore, '$', a period and a two-byte rune
WordAlphabet == {"a", "7", "_", "$", ".", WideRune}
WordLines == UNION {[1..k -> WordAlphabet] : k \in 0..MaxLineLen}

WordsInit ==
    /\ tagEntries = <<>>
    /\ rootPath = Root
    /\ \E line \in WordLines : cache = [p \in {AbsOf(FileA)} |-> <<line>>]
    /\ mu = 0
    /\ disk = [f \in Files |-> 1]
    /\ diskWrites = 0
    /\ gs = <<>>
    /\ out = <<>>
    /\ running = TRUE

\* one completion request, its cursor anywhere up to one past the longest
\* line, on the line of the document or on the line after it
ReadWordMessage ==
    /\ gs = <<>>
    /\ \E l \in 0..1, c \in 0..(MaxLineLen + 1) :
          Spawn(Request("textDocument/completion", IdOf(1), TRUE, URIOf(FileA),
                        <<>>, 0, l, c, <<>>))

NextWords ==
    \/ ReadWordMessage
    \/ \E g \in Procs :
          \/ handleCompletion(g)
          \/ getCurrentWordCached(g)
          \/ handleCompletionScan(g)

SpecWords == WordsInit /\ [][NextWords]_vars

----------------------------------------------------------------------------
(* Ranges: findSymbolRangeInFile on every short line of a small alphabet *)

MaxLineNo == 2

\* two letters and a two-byte rune
RangeAlphabet == {"F", "o", WideRune}
RangeLines == UNION {[1..k -> RangeAlphabet] : k \in 0..MaxLineLen}
RangeNames == {<<"F">>, <<"o", "F">>, <<WideRune, "F">>}

\* the index holds one class of a.rb, declared on a line from 0 on, and
\* a.rb is open with a single line
RangesInit ==
    /\ \E name \in RangeNames, n \in 0..MaxLineNo :
          tagEntries = <<TagEntry(name, FileA, KindClass, n)>>
    /\ rootPath = Root
    /\ \E line \in RangeLines : cache = [p \in {AbsOf(FileA)} |-> <<line>>]
    /\ mu = 0
    /\ disk = [f \in Files |-> 1]
    /\ diskWrites = 0
    /\ gs = <<>>
    /\ out = <<>>
    /\ running = TRUE

\* the client asks for the symbol by its name
ReadRangeMessage ==
    /\ gs = <<>>
    /\ Spawn(Request("workspace/symbol", IdOf(1), TRUE, <<>>, <<>>, 0, 0, 0,
                     tagEntries[1].Name))

NextRanges ==
    \/ ReadRangeMessage
    \/ \E g \in Procs :
          \/ lockIndex(g)
          \/ loopCached(g)
          \/ loopFinish(g)

SpecRanges == RangesInit /\ [][NextRanges]_vars

----------------------------------------------------------------------------
(* Locks: every handler that takes server.mu or the lock of the cache, each
   in its own goroutine, under a fair scheduler *)

MaxLockMsgs == 3

\* the client initializes, then saves and searches without waiting
LockInbox(n) ==
    IF n = 1
    THEN {Request("initialize", IdOf(1), TRUE, RootURI, <<>>, 0, 0, 0, <<>>)}
    ELSE {Request("textDocument/didSave", NoId, TRUE, URIOf(FileA), <<>>, 0,
                  0, 0, <<>>),
          Request("textDocument/definition", IdOf(n), TRUE, URIOf(FileA), <<>>,
                  0, 0, 1, <<>>),
          Request("workspace/symbol", IdOf(n), TRUE, <<>>, <<>>, 0, 0, 0,
                  NameFoo),
          Request("textDocument/documentSymbol", IdOf(n), TRUE, URIOf(FileA),
                  <<>>, 0, 0, 0, <<>>)}

ReadLockMessage ==
    /\ Len(gs) < MaxLockMsgs
    /\ \E m \in LockInbox(Len(gs) + 1) : Spawn(m)

\* one step of the handler that goroutine g runs
LockStep(g) ==
    \/ Ingest(g)
    \/ handleDefinition(g)
    \/ Word(g)
    \/ Locked(g)

NextLocks ==
    \/ ReadLockMessage
    \/ \E g \in Procs : LockStep(g)

\* the next step of g's handler starts with server.mu.Lock()
NeedsIndex(g) ==
    \/ gs[g].pc \in {"lock", "append"}
    \/ /\ gs[g].pc = "start"
       /\ IsWorkspaceSymbol(g) \/ IsDocumentSymbol(g) \/ IsRescan(g)

\* ENABLED <<LockStep(g)>>_vars, written out: the handler of g has not
\* returned, and the mutex is free when its next step has to take it
CanStep(g) ==
    /\ running
    /\ g \in DOMAIN gs
    /\ gs[g].pc # "done"
    /\ NeedsIndex(g) => mu = 0

\* the Go scheduler runs every goroutine that can run: weak fairness
\* WF_vars(LockStep(g)) of each goroutine, in its defining form
FairLockStep(g) ==
    \/ []<>(~CanStep(g))
    \/ []<><<g \in DOMAIN gs /\ gs'[g] # gs[g] /\ LockStep(g)>>_vars

SpecLocks ==
    /\ Init
    /\ [][NextLocks]_vars
    /\ \A g \in 1..MaxLockMsgs : FairLockStep(g)

----------------------------------------------------------------------------
(* Properties *)

\* goroutine g takes a step (only the goroutine itself changes its record)
Steps(g) == g \in DOMAIN gs /\ gs'[g] # gs[g]

\* the frame a step has just written
LastFrame == out'[Len(out')]
Wrote == Len(out') = Len(out) + 1

\* g's handler returns in this step
Returns(g) == Steps(g) /\ gs[g].pc # "done" /\ gs'[g].pc = "done"

\* h is a didOpen or a didChange that stores content when it is handled
Stores(h) ==
    /\ gs[h].m.ok
    /\ \/ gs[h].m.method = "textDocument/didOpen"
       \/ gs[h].m.method = "textDocument/didChange" /\ gs[h].m.nchanges > 0

\* the read loop reads a complete body that does not decode as a request
ReadUndecodable == Len(gs) < MaxMsgs /\ ReadFrame(UndecodableFrame)

\* C11: when a correctly framed body fails to decode as a request
\* envelope, the serving loop keeps running (the process does not stop)
\* and no goroutine is started for the message
C11_UndecodableConfined ==
    [][ReadUndecodable => (running' /\ gs' = gs)]_vars

\* the read loop reads a frame with a truncated header, a Content-Length
\* that is not a number, or a body shorter than declared
ReadMalformed ==
    Len(gs) < MaxMsgs /\ \E frame \in MalformedFrames : ReadFrame(frame)

\* C12: reading a malformed frame stops the read loop and the process,
\* and once the process has stopped no message is dispatched any more
C12_MalformedFatal ==
    [][/\ ReadMalformed => (~running' /\ gs' = gs)
       /\ ~running => (~running' /\ gs' = gs /\ out' = out)]_vars

\* C12 witness: the process has stopped without an exit notification,
\* one message having been dispatched before, its handler cut short
C12_Witness ==
    /\ ~running
    /\ Len(gs) = 1
    /\ gs[1].m.method = "initialize"
    /\ gs[1].pc = "tool"

\* C13: when the indexing tool fails during initialize (the handler
\* returns from the tool run without appending), the request is answered
\* with the error -32603 carrying its identifier, and no success result
\* carries the identifier of a request answered with that error
C13_InitializeToolFailure ==
    [][\A g \in DOMAIN gs :
          (IsBulk(g) /\ gs[g].pc = "tool" /\ Returns(g)) =>
              /\ out' = Append(out, ErrorFrame(gs[g].m.id, -32603))
              /\ tagEntries' = tagEntries
              /\ \A i, j \in DOMAIN out' :
                    (out'[i].id = out'[j].id /\ out'[i].code = -32603) =>
                        out'[j].kind # "capabilities"]_vars

\* C13 witness: an initialize was answered with the error -32603 and its
\* handler has returned; the index is empty
C13_Witness ==
    /\ \E k \in DOMAIN out :
          /\ out[k] = ErrorFrame(IdOf(1), -32603)
          /\ \A j \in DOMAIN out : out[j].id = IdOf(1) => j = k
    /\ gs # <<>>
    /\ gs[1].pc = "done"
    /\ tagEntries = <<>>

\* the cursor of g's request has no resolvable symbol in the document as
\* cached: no entry, a line past the end, a character past the end of the
\* line, or no identifier character on either side of the cursor
Unresolvable(g) ==
    LET p == DocPath(g)
        l == gs[g].m.line
        c == gs[g].m.char
    IN \/ p \notin DOMAIN cache
       \/ l >= Len(cache[p])
       \/ c > Len(cache[p][l + 1])
       \/ /\ ~(c > 0 /\ isIdentifierChar(cache[p][l + 1][c]))
          /\ ~(c < Len(cache[p][l + 1]) /\ isIdentifierChar(cache[p][l + 1][c + 1]))

\* C14: a completion or definition request whose cursor has no resolvable
\* symbol is answered with an empty list or null, never with an error
C14_UnresolvableNotAnError ==
    [][\A g \in DOMAIN gs :
          (/\ IsCompletion(g) \/ IsDefinition(g)
           /\ gs[g].m.ok
           /\ Unresolvable(g)
           /\ Returns(g) /\ Wrote) =>
              /\ LastFrame.kind \in {"completion", "null"}
              /\ LastFrame.items = <<>>]_vars

\* the cache after the step differs from the cache before at most in the
\* entry of path p
OnlyEntryChanged(p) ==
    /\ DOMAIN cache' \ {p} = DOMAIN cache \ {p}
    /\ \A q \in DOMAIN cache \ {p} : cache'[q] = cache[q]

\* lines is text cut at its line feeds
IsSplitOf(lines, text) ==
    /\ lines # <<>>
    /\ JoinWith(lines, "\n") = text
    /\ \A i \in DOMAIN lines : "\n" \notin Range(lines[i])

\* C15: handling a didOpen, or a didChange with a content change, leaves
\* as the entry of the document exactly the text split at its line feeds;
\* handling a didClose leaves no entry for the document; each of the three
\* leaves the entries of the other documents as they were
C15_CacheOperations ==
    [][\A g \in DOMAIN gs :
          (Steps(g) /\ gs[g].pc = "start" /\ gs[g].m.ok) =>
              LET p == uriToPath(gs[g].m.uri)
              IN /\ Stores(g) =>
                       /\ p \in DOMAIN cache'
                       /\ IsSplitOf(cache'[p], gs[g].m.text)
                       /\ OnlyEntryChanged(p)
                 /\ gs[g].m.method = "textDocument/didClose" =>
                       /\ p \notin DOMAIN cache'
                       /\ OnlyEntryChanged(p)]_vars

\* C15 witness: b.rb is open with the two lines of its text and a.rb,
\* which was open, is closed
C15_Witness ==
    /\ DOMAIN cache = {AbsOf(FileB)}
    /\ cache[AbsOf(FileB)] = <<NameBaz, NameFoo>>
    /\ Len(gs) = 3
    /\ \A g \in DOMAIN gs : gs[g].pc = "done"

\* the file of path p can be read
Readable(p) == \E f \in Files : AbsOf(f) = p /\ disk[f] # 0
\* the lines of the file of path p as it is on disk
LinesOnDisk(p) ==
    LET f == CHOOSE f \in Files : AbsOf(f) = p IN FileLines(f, disk[f])

\* C16: getOrLoad(path), called for the document of a definition request:
\* with an entry for path it returns the entry and reads nothing; without
\* one it reads the file, and then stores the lines of the file under
\* path, changing no other entry, and returns them; when the file cannot
\* be read it fails (the request is answered null) and the cache stays as
\* it was
C16_GetOrLoad ==
    [][\A g \in DOMAIN gs :
          (Steps(g) /\ IsDefinition(g)) =>
              LET p == DocPath(g)
              IN /\ (gs[g].pc = "word" /\ p \in DOMAIN cache) =>
                       /\ cache' = cache
                       /\ gs'[g].pc # "wload"
                       /\ gs'[g].pc = "lock" =>
                             gs'[g].word = WordAt(cache[p], gs[g].m.line,
                                                  gs[g].m.char).word
                 /\ (gs[g].pc = "word" /\ p \notin DOMAIN cache) =>
                       /\ cache' = cache
                       /\ gs'[g].pc = "wload"
                 /\ (gs[g].pc = "wload" /\ Readable(p)) =>
                       /\ cache' = cache
                       /\ gs'[g].pc = "wstore"
                       /\ gs'[g].lines = LinesOnDisk(p)
                 /\ (gs[g].pc = "wload" /\ ~Readable(p)) =>
                       /\ cache' = cache
                       /\ Returns(g)
                       /\ out' = Append(out, ResultFrame(gs[g].m.id, "null", <<>>))
                 /\ gs[g].pc = "wstore" =>
                       /\ p \in DOMAIN cache'
                       /\ cache'[p] = gs[g].lines
                       /\ OnlyEntryChanged(p)
                       /\ gs'[g].pc = "lock" =>
                             gs'[g].word = WordAt(gs[g].lines, gs[g].m.line,
                                                  gs[g].m.char).word]_vars

\* C16 witness: a.rb was never opened, a definition request loaded it, and
\* the cache holds the three lines the file has on disk
C16_Witness ==
    /\ AbsOf(FileA) \in DOMAIN cache
    /\ cache[AbsOf(FileA)] = FileLines(FileA, 1)
    /\ Len(cache[AbsOf(FileA)]) = 3

\* the complete line sequences a document can have: the texts the client
\* sends, split, and the files on disk
CompleteVersions ==
    {<<TextOne>>, <<NameBaz, NameFoo>>}
    \cup {FileLines(f, 1) : f \in Files}

\* C17: the entry of a document that a reader finds in the cache, while
\* notifications for the document are handled concurrently, is always one
\* complete line sequence, never a mixture of two, and so are the lines a
\* reader holds
C17_NoTornEntry ==
    /\ \A p \in DOMAIN cache : cache[p] \in CompleteVersions
    /\ \A g \in DOMAIN gs :
          gs[g].pc = "wstore" => gs[g].lines \in CompleteVersions

\* C17 witness: a definition request is about to read the entry of a.rb,
\* which holds the text of the didOpen, while a didChange of a.rb with
\* another text has been dispatched and not yet handled
C17_Witness ==
    \E g \in DOMAIN gs, h \in DOMAIN gs :
        /\ IsDefinition(g) /\ gs[g].pc = "word"
        /\ gs[h].m.method = "textDocument/didChange" /\ gs[h].pc = "start"
        /\ gs[h].m.nchanges > 0
        /\ gs[h].m.uri = gs[g].m.uri
        /\ DocPath(g) \in DOMAIN cache
        /\ cache[DocPath(g)] = <<TextOne>>

\* C18: every step of a handler that reads the index (the scan of
\* completion, the loops of definition, workspace/symbol and
\* documentSymbol) is taken while the handler holds the index mutex, and
\* every step that changes the index is a critical section of the mutex
C18_IndexAccessLocked ==
    [][\A g \in DOMAIN gs :
          Steps(g) =>
              /\ gs[g].pc \in {"scan", "loop", "lload", "lstore"} => mu = g
              /\ tagEntries' # tagEntries => (mu = 0 /\ mu' = 0)]_vars

\* C19: no step of a handler that performs external I/O (reading a file
\* for a lazy load, running the indexing tool) is taken while the handler
\* holds the index mutex
C19_NoIOUnderLock ==
    [][\A g \in DOMAIN gs :
          (Steps(g) /\ gs[g].pc \in {"wload", "lload", "tool"}) => mu # g]_vars

\* the line that goroutine g scans in this step of parseTagfile
ScannedLine(g) == gs[g].tagfile[gs[g].i + 1]

\* goroutine g scans a data line in this step and gets an entry from it
ScansEntry(g) ==
    /\ Steps(g)
    /\ gs[g].pc = "tagfile"
    /\ gs[g].i < Len(gs[g].tagfile)
    /\ Len(gs'[g].entries) = Len(gs[g].entries) + 1

ScannedEntry(g) == gs'[g].entries[Len(gs'[g].entries)]

\* the bare kind field of a data line
BareKind(line) ==
    LET fields == Split(line, Tab)
    IN IF Len(fields) > 3 /\ ~Contains(fields[4], Colon) THEN fields[4] ELSE <<>>

\* the headers read so far have given the table of language `language` a
\* mapping for `letter`
Registered(m, language, letter) ==
    /\ language \in DOMAIN m.byLanguage
    /\ letter \in DOMAIN m.byLanguage[language]

\* C21: a data line with the single-letter kind f, whose language has no
\* registered mapping for f, scanned when the default table (the headers
\* without a language) maps f to function, gives a record of kind function
C21_DefaultFallback ==
    [][\A g \in DOMAIN gs :
          (/\ ScansEntry(g)
           /\ BareKind(ScannedLine(g)) = <<"f">>
           /\ Registered(gs[g].kindMap, DefaultLanguage, <<"f">>)
           /\ gs[g].kindMap.byLanguage[DefaultLanguage][<<"f">>] = KindFunction
           /\ \/ ScannedEntry(g).Language = <<>>
              \/ ~Registered(gs[g].kindMap, ScannedEntry(g).Language, <<"f">>))
          => ScannedEntry(g).Kind = KindFunction]_vars

\* name, path, kind and line of the records of a list
Project(entries) ==
    [i \in DOMAIN entries |->
        <<entries[i].Name, entries[i].Path, entries[i].Kind, entries[i].Line>>]

\* parseTagfile has returned to goroutine g the entries of the tags file
\* written for `symbols` with the extension fields `choice`
Parsed(g, symbols, choice) ==
    /\ gs[g].pc = "append"
    /\ Len(gs[g].tagfile) = Len(RubyHeaders) + Len(PythonHeaders) + Len(symbols)
    /\ gs[g].tagfile = FormatTagfile(symbols, choice)

\* the two ingestion formats give the same name, path, kind and line for
\* the list `symbols`
SameRecords(g, symbols) ==
    Project(gs[g].entries) = Project(DecodeOutput(StreamOf(symbols), rootPath))

C20_PathsRelative ==
    \A i \in DOMAIN tagEntries : ~IsAbs(tagEntries[i].Path)

\* the index holds a record whose file was named by its absolute path
\* /w/a.rb and a record whose file was named a.rb
C20_Witness ==
    /\ \E i \in DOMAIN tagEntries :
          tagEntries[i].Path = Join(<<"w">>, FileA)
    /\ \E i \in DOMAIN tagEntries : tagEntries[i].Path = FileA

\* the records named `word`, in index order, whose file
\* GetOrLoadFileContent can give: it is in the cache or can be read
Yielding(word) ==
    SelectSeq(tagEntries,
              LAMBDA e : /\ e.Name = word
                         /\ \/ CacheHas(Join(rootPath, e.Path))
                            \/ Readable(Join(rootPath, e.Path)))

\* the location of the declaration of record e
LocationOf(e) ==
    LET p == Join(rootPath, e.Path)
        content == IF CacheHas(p) THEN cache[p] ELSE LinesOnDisk(p)
    IN [URI |-> filepathToURI(p),
        Range |-> findSymbolRangeInFile(content, e.Name, e.Line)]

\* C23: when definition has found the word at the cursor and its loop over
\* the index ends, it answers null if no record named as the word yields a
\* location, the location if exactly one does, and otherwise the list of
\* the locations, one for each such record, in index order
C23_DefinitionShape ==
    [][\A g \in DOMAIN gs :
          (Returns(g) /\ gs[g].pc = "loop" /\ IsDefinition(g)) =>
              LET y == Yielding(gs[g].word)
              IN /\ Wrote
                 /\ LastFrame.id = gs[g].m.id
                 /\ LastFrame.code = 0
                 /\ LastFrame.kind = IF Len(y) = 0 THEN "null"
                                     ELSE IF Len(y) = 1 THEN "location"
                                     ELSE "locations"
                 /\ Len(LastFrame.items) = Len(y)
                 /\ \A k \in DOMAIN y :
                       /\ LastFrame.items[k].URI = LocationOf(y[k]).URI
                       /\ LastFrame.items[k].Range = LocationOf(y[k]).Range]_vars

\* the index holds a record of Foo in c.py, which cannot be read, and then
\* one in b.rb, which is loaded from disk: definition has answered with the
\* single location in b.rb
C23_Witness ==
    /\ Len(tagEntries) = 2
    /\ tagEntries[1].Name = NameFoo /\ tagEntries[1].Path = FileC
    /\ tagEntries[2].Name = NameFoo /\ tagEntries[2].Path = FileB
    /\ \E i \in DOMAIN out :
          /\ out[i].kind = "location"
          /\ Len(out[i].items) = 1
          /\ out[i].items[1].URI = URIOf(FileB)

\* the tool of a bulk ingestion is running
ToolRunning == \E g \in DOMAIN gs : IsBulk(g) /\ gs[g].pc = "tool"

IsEdit(h) ==
    gs[h].m.method \in {"textDocument/didOpen", "textDocument/didChange",
                        "textDocument/didClose"}

\* C24: while the tool of initialize runs, the ingestion holds no lock,
\* and every didOpen, didChange and didClose that has been read can take
\* its step, which runs the handler to its end
C24_EditsDuringScan ==
    /\ \A g \in DOMAIN gs : gs[g].pc = "tool" => mu # g
    /\ \A h \in DOMAIN gs :
          (running /\ ToolRunning /\ gs[h].pc = "start" /\ IsEdit(h)) =>
              ENABLED (Documents(h) /\ gs'[h].pc = "done")

\* the tool of an initialize read first is still running and a document
\* read after it is in the cache
C24_Witness ==
    /\ Len(gs) = 2
    /\ IsBulk(1) /\ gs[1].pc = "tool"
    /\ gs[2].pc = "done"
    /\ cache # <<>>

\* the content an editor sends for a document, which no file on disk has
EditorContents == {Split(TextOne, "\n"), Split(TextTwo, "\n")}

\* h is an open, a change or a close of the document of path p
EditsDocument(h, p) ==
    /\ gs[h].m.ok
    /\ DocPath(h) = p
    /\ Stores(h) \/ gs[h].m.method = "textDocument/didClose"

\* C25: an entry of the cache that holds content stored by an open or a
\* change is replaced or removed only by the step of an open, a change or
\* a close of the same document, never by the store of a lazy load
C25_EditorContentKept ==
    [][\A p \in DOMAIN cache :
          (/\ cache[p] \in EditorContents
           /\ p \notin DOMAIN cache' \/ cache'[p] # cache[p])
          => \E h \in DOMAIN gs : Steps(h) /\ EditsDocument(h, p)]_vars

\* the records of path p in an index, and the others, in index order
RecordsOf(entries, p) == SelectSeq(entries, LAMBDA e : e.Path = p)
RecordsNotOf(entries, p) == SelectSeq(entries, LAMBDA e : e.Path # p)

\* what one scan of file f alone reports, for a version v of the file
ScanOf(f, v) == DecodeOutput(CtagsFile(f, f, v), Root)

\* g runs some ingestion, bulk or per file, that has begun and not ended
Ingesting(g) == gs[g].pc \in {"tool", "append"}

\* g reads the index: it is inside the critical section of a search
Reading(g) == mu = g /\ gs[g].pc = "loop"

\* C1: while a rescan of path p replaces the records of p (p had records
\* before it and the new scan has reported some), a reader of the index
\* never observes an index that holds neither a record p had before the
\* rescan nor a record the rescan ingests
C1_ReplacementAtomic ==
    \A r \in DOMAIN gs, g \in DOMAIN gs :
        LET old == RecordsOf(gs[r].snap, gs[r].relPath)
            new == gs[r].entries
        IN (IsRescan(r) /\ gs[r].pc = "append" /\ Reading(g)
            /\ old # <<>> /\ new # <<>>) =>
               \E i \in DOMAIN tagEntries :
                   tagEntries[i] \in Range(old) \cup Range(new)

\* C2: a successful rescan of path p, the index not having been changed by
\* anyone else since the rescan removed p's records, leaves the records of
\* the other paths as they were before the rescan, in the same order,
\* followed by exactly the records one scan of p reports, and nothing else
C2_RescanFrame ==
    [][\A r \in DOMAIN gs :
          (IsRescan(r) /\ gs[r].pc = "append" /\ Returns(r)
           /\ tagEntries = gs[r].newEntries) =>
              \E v \in 1..2 :
                  /\ tagEntries' =
                         RecordsNotOf(gs[r].snap, gs[r].relPath)
                         \o ScanOf(gs[r].relPath, v)
                  /\ RecordsOf(tagEntries', gs[r].relPath)
                         = ScanOf(gs[r].relPath, v)
                  /\ Len(tagEntries') =
                         Len(gs[r].snap)
                         - Len(RecordsOf(gs[r].snap, gs[r].relPath))
                         + Len(ScanOf(gs[r].relPath, v))]_vars

\* C2 witness: the index held 3 records of a.rb and 2 of b.rb, a.rb was
\* rewritten and rescanned, and the index now holds the 2 records of b.rb
\* followed by the 1 record of the new a.rb, 3 in all
C2_Witness ==
    /\ \A g \in DOMAIN gs : gs[g].pc = "done"
    /\ Len(ScanOf(FileA, 1)) = 3
    /\ tagEntries = ScanOf(FileB, 1) \o ScanOf(FileA, 2)
    /\ Len(tagEntries) = 3

\* C3: when a rescan of path p completes and no other ingestion is under
\* way, the index holds for p exactly the records of one single scan of p,
\* whatever rescans or bulk ingestion overlapped with it
C3_OneScanPerPath ==
    [][\A r \in DOMAIN gs :
          (IsRescan(r) /\ gs[r].pc = "append" /\ Returns(r)
           /\ \A g \in DOMAIN gs \ {r} : ~Ingesting(g)) =>
              \E v \in 0..2 :
                  RecordsOf(tagEntries', gs[r].relPath) = ScanOf(gs[r].relPath, v)]_vars

\* the cache does not hold for h's document the content h stores
NotYetStored(h) ==
    \/ uriToPath(gs[h].m.uri) \notin DOMAIN cache
    \/ cache[uriToPath(gs[h].m.uri)] # Split(gs[h].m.text, "\n")

\* C4: a request for document d (here a completion or a didChange) that
\* the framer read right after a didOpen/didChange for d does not read or
\* write the cache entry of d before that notification has stored its
\* content: it never acts on content older than what the notification
\* stores (no message read after the two has been handled yet)
C4_SameDocumentOrder ==
    [][\A h \in DOMAIN gs, g \in DOMAIN gs :
          (/\ g = h + 1
           /\ Stores(h) /\ gs[h].pc = "start" /\ NotYetStored(h)
           /\ gs[g].pc = "start"
           /\ gs[g].m.ok
           /\ gs[g].m.method \in {"textDocument/completion",
                                   "textDocument/didChange"}
           /\ gs[g].m.uri = gs[h].m.uri
           /\ \A k \in DOMAIN gs : k > g => gs[k].pc = "start")
          => gs'[g] = gs[g]]_vars

\* C9: handling a message that carries no identifier never writes a frame
C9_NotificationsSilent ==
    [][\A g \in DOMAIN gs :
          (gs[g].m.id = NoId /\ gs[g].pc # "done" /\ Steps(g)) =>
              out' = out]_vars

\* C10: handling a request whose method is none of the names of the
\* handler table writes exactly one frame, an error with code -32601 and
\* the identifier of the request, which no earlier frame carries, and
\* leaves the index and the cache as they are
C10_MethodNotFound ==
    [][\A g \in DOMAIN gs :
          (/\ gs[g].pc = "start"
           /\ gs[g].m.method \notin HandlerTable
           /\ gs[g].m.id # NoId
           /\ Steps(g)) =>
              /\ out' = Append(out, ErrorFrame(gs[g].m.id, -32601))
              /\ \A k \in DOMAIN out : out[k].id # gs[g].m.id
              /\ gs'[g].pc = "done"
              /\ tagEntries' = tagEntries
              /\ cache' = cache]_vars

\* C10 witness: a request was answered with the error -32601 and its own
\* identifier while the index holds records
C10_Witness ==
    /\ tagEntries # <<>>
    /\ \E k \in DOMAIN out :
          /\ out[k].kind = "error"
          /\ out[k].code = -32601
          /\ out[k].id # NoId
          /\ \A j \in DOMAIN out : j # k => out[j].id # out[k].id

\* C5: the item list of a completion result never holds two items with the
\* same label, whatever the index, the document and the cursor
C5_CompletionLabelsDistinct ==
    \A k \in DOMAIN out :
        out[k].kind = "completion" =>
            \A i, j \in DOMAIN out[k].items :
                i # j => out[k].items[i].Label # out[k].items[j].Label

\* C5 witness: a completion was answered with an item whose name two
\* records of the index share, both of the item's kind and file
C5_Witness ==
    \E k \in DOMAIN out :
        /\ out[k].kind = "completion"
        /\ \E n \in DOMAIN out[k].items, i, j \in DOMAIN tagEntries :
              /\ i < j
              /\ tagEntries[i] = tagEntries[j]
              /\ tagEntries[i].Name = out[k].items[n].Label
              /\ tagEntries[i].Path = out[k].items[n].DetailPath
              /\ tagEntries[i].Kind = out[k].items[n].DetailKind

\* the rune before the cursor of g's request, in the document as cached, is
\* a period
PeriodBeforeCursor(g) ==
    /\ DocPath(g) \in DOMAIN cache
    /\ gs[g].m.line < Len(cache[DocPath(g)])
    /\ gs[g].m.char > 0
    /\ gs[g].m.char <= Len(cache[DocPath(g)][gs[g].m.line + 1])
    /\ cache[DocPath(g)][gs[g].m.line + 1][gs[g].m.char] = "."

\* C6: when the rune right before the cursor is a period, every item of
\* the completion result has the Method or Function category and comes from
\* a record whose file extension is the document's; no Text item is included
C6_AfterDotOnlyCallables ==
    [][\A g \in DOMAIN gs :
          (IsCompletion(g) /\ Returns(g) /\ Wrote /\ PeriodBeforeCursor(g)) =>
              \A i \in DOMAIN LastFrame.items :
                  /\ LastFrame.items[i].Kind \in
                         {CompletionItemKindMethod, CompletionItemKindFunction}
                  /\ LastFrame.items[i].Kind # CompletionItemKindText
                  /\ Ext(LastFrame.items[i].DetailPath) = Ext(DocPath(g))]_vars

\* C6 witness: a completion answered with a single Method item although
\* the first record of the index has the same name and an unmapped (Text)
\* kind: only the filter applied after a period leaves that record out
C6_Witness ==
    \E k \in DOMAIN out :
        /\ out[k].kind = "completion"
        /\ Len(out[k].items) = 1
        /\ out[k].items[1].Kind = CompletionItemKindMethod
        /\ Len(tagEntries) = 2
        /\ tagEntries[1].Name = out[k].items[1].Label
        /\ tagEntries[1].Kind = KindUnknown

\* w is a prefix of n when case is ignored
CaselessPrefix(w, n) ==
    /\ Len(w) <= Len(n)
    /\ \A i \in 1..Len(w) : ToLowerChar(w[i]) = ToLowerChar(n[i])

\* the context filter of completion for record e: after a period, a
\* callable of the document's extension; otherwise a Text record or a
\* record of the document's extension
PassesContext(e, afterDot, docPath) ==
    LET cat == GetLSPCompletionKind(e.Kind)
        sameExt == Ext(e.Path) = Ext(docPath)
    IN IF afterDot
       THEN sameExt /\ cat \in {CompletionItemKindMethod, CompletionItemKindFunction}
       ELSE sameExt \/ cat = CompletionItemKindText

\* C7: workspace/symbol returns a record only when its name equals the
\* query exactly, whereas completion returns the name of every record whose
\* name has the current word as a case-insensitive prefix and that passes
\* the context filter
C7_ExactVersusPrefix ==
    [][\A g \in DOMAIN gs :
          /\ (IsWorkspaceSymbol(g) /\ Returns(g) /\ Wrote) =>
                 \A i \in DOMAIN LastFrame.items :
                     LastFrame.items[i].Name = gs[g].m.query
          /\ (IsCompletion(g) /\ gs[g].pc = "scan" /\ Returns(g) /\ Wrote) =>
                 {LastFrame.items[i].Label : i \in DOMAIN LastFrame.items}
                 = {tagEntries[i].Name : i \in
                       {j \in DOMAIN tagEntries :
                           /\ CaselessPrefix(gs[g].word, tagEntries[j].Name)
                           /\ PassesContext(tagEntries[j], gs[g].isAfterDot,
                                            DocPath(g))}}]_vars

\* C7 witness: on an index that holds a record named FooBar of a mapped
\* kind, a workspace/symbol query was answered with records named Foo only
\* and a completion was answered with an item labelled FooBar
C7_Witness ==
    /\ \E i \in DOMAIN tagEntries :
          /\ tagEntries[i].Name = NameFooBar
          /\ tagEntries[i].Kind = KindMethod
    /\ \E k \in DOMAIN out :
          /\ out[k].kind = "symbols"
          /\ out[k].items # <<>>
          /\ \A i \in DOMAIN out[k].items : out[k].items[i].Name = NameFoo
    /\ \E k \in DOMAIN out :
          /\ out[k].kind = "completion"
          /\ \E i \in DOMAIN out[k].items : out[k].items[i].Label = NameFooBar

\* the step in which getCurrentWord returns for a cursor on "foo.bar_baz"
WordStepOnExample(g, char) ==
    /\ Steps(g)
    /\ gs[g].pc = "word"
    /\ DocPath(g) \in DOMAIN cache
    /\ gs[g].m.line < Len(cache[DocPath(g)])
    /\ cache[DocPath(g)][gs[g].m.line + 1] = QueryLineOne
    /\ gs[g].m.char = char

WordReturned(g, w) == gs'[g].pc \in {"scan", "lock"} /\ gs'[g].word = w
NoWordReturned(g) == gs'[g].pc = "done"

\* C8 as stated: on "foo.bar_baz" getCurrentWord returns "bar_baz" at
\* offset 4, "foo" at offset 0 and no word at offset 3
C8_AsStated ==
    [][\A g \in DOMAIN gs :
          /\ WordStepOnExample(g, 4) => WordReturned(g, NameBarBaz)
          /\ WordStepOnExample(g, 0) => WordReturned(g, NameLowerFoo)
          /\ WordStepOnExample(g, 3) => NoWordReturned(g)]_vars

\* C8 amended: on "foo.bar_baz" getCurrentWord returns "bar_baz" at offset
\* 4, "foo" at offset 0 and "foo" at offset 3, the offset of the period,
\* because the run "foo" ends at the cursor
C8_WordOnExample ==
    [][\A g \in DOMAIN gs :
          /\ WordStepOnExample(g, 4) => WordReturned(g, NameBarBaz)
          /\ WordStepOnExample(g, 0) => WordReturned(g, NameLowerFoo)
          /\ WordStepOnExample(g, 3) => WordReturned(g, NameLowerFoo)]_vars

\* C8 witness: a handler holds the word "foo" for a cursor at offset 3 of
\* "foo.bar_baz"
C8_Witness ==
    \E g \in DOMAIN gs :
        /\ gs[g].pc \in {"scan", "lock"}
        /\ gs[g].m.line = 0
        /\ gs[g].m.char = 3
        /\ cache[DocPath(g)][1] = QueryLineOne
        /\ gs[g].word = NameLowerFoo


C27_AppendAfterSuccess ==
    [][/\ Len(tagEntries') > Len(tagEntries) =>
              \E g \in DOMAIN gs :
                  /\ gs[g].pc = "append"
                  /\ Returns(g)
                  /\ gs[g].entries # <<>>
                  /\ tagEntries' = tagEntries \o gs[g].entries
       /\ \A g \in DOMAIN gs :
              /\ (gs[g].pc = "tool" /\ Returns(g)) =>
                     tagEntries' = tagEntries
              /\ (gs[g].pc = "tool" /\ Steps(g) /\ ~Returns(g)) =>
                     /\ tagEntries' = tagEntries
                     /\ gs'[g].pc = "append"
              /\ gs[g].pc = "done" => gs'[g].pc = "done"]_vars

\* C27 witness: initialize was answered with the error -32603 although the
\* workspace has files to report, a.rb was saved afterwards, and the index
\* holds exactly the records of one scan of a.rb
C27_Witness ==
    /\ Len(gs) >= 2
    /\ \A g \in DOMAIN gs : gs[g].pc = "done"
    /\ Len(out) = 1
    /\ out[1] = ErrorFrame(IdOf(1), -32603)
    /\ DecodeOutput(CtagsRecursive(FileOrder, disk), rootPath) # <<>>
    /\ \E v \in 1..2 : tagEntries = ScanOf(FileA, v)


\* g is about to take server.mu: Lock() of a search, of the removal of a
\* rescan, or of the append of an ingestion
WaitsForIndex(g) ==
    /\ g \in DOMAIN gs
    /\ \/ gs[g].pc \in {"lock", "append"}
       \/ /\ gs[g].pc = "start"
          /\ gs[g].m.ok
          /\ IsWorkspaceSymbol(g) \/ IsDocumentSymbol(g) \/ IsRescan(g)

\* g has taken server.mu: it holds it, or its critical section is over
HoldsIndex(g) ==
    /\ g \in DOMAIN gs
    /\ mu = g \/ gs[g].pc \in {"tool", "done"}

\* a step in which g takes or gives back server.mu, or changes the index
\* inside its critical section, is no step of a critical section of the
\* cache; and only the three searches run cache sections inside server.mu
LockOrder ==
    \A g \in DOMAIN gs :
        Steps(g) =>
            /\ (mu' # mu \/ tagEntries' # tagEntries) => cache' = cache
            /\ cache' # cache =>
                   (mu = g <=> gs[g].pc = "lstore")
            /\ mu = g =>
                   /\ IsDefinition(g) \/ IsWorkspaceSymbol(g) \/ IsDocumentSymbol(g)
                   /\ gs[g].pc \in {"loop", "lload", "lstore"}

\* C28: no handler takes the index mutex inside a critical section of the
\* cache (the cache is locked inside the index mutex only by definition,
\* workspaceSymbol and documentSymbol), and under a fair scheduler every
\* handler that waits for the index mutex gets it, and every handler
\* returns, so that no wait for the lock of the cache lasts for ever
C28_NoDeadlock ==
    /\ [][LockOrder]_vars
    /\ \A g \in 1..MaxLockMsgs :
          WaitsForIndex(g) ~> HoldsIndex(g)
    /\ <>[](\A g \in DOMAIN gs : gs[g].pc = "done")

\* C28 witness: a search holds the index mutex while it reads a file, and
\* a definition that has been through the cache waits for the mutex
C28_Witness ==
    \E g, h \in DOMAIN gs :
        /\ mu = h
        /\ gs[h].pc = "lload"
        /\ g # h
        /\ WaitsForIndex(g)
        /\ IsDefinition(g)
        /\ gs[g].pc = "lock"



\* the methods whose handler answers on every path
ResponseMethods ==
    {"initialize", "shutdown", "textDocument/completion",
     "textDocument/definition", "workspace/symbol",
     "textDocument/documentSymbol"}

\* C29: a frame is written only by the step with which a handler returns,
\* one frame at most, and it carries the identifier of that handler's
\* request, so that no two frames carry the same identifier; the handlers
\* of initialize, shutdown, completion, definition, workspaceSymbol and
\* documentSymbol, given a request with an identifier, never return
\* without writing that frame (a handler cut short by the exit of the
\* process does not return)
C29_OneResponse ==
    [][/\ out' = out \/ (Wrote /\ SubSeq(out', 1, Len(out)) = out)
       /\ Wrote => \E g \in DOMAIN gs : Steps(g)
       /\ \A g \in DOMAIN gs :
              /\ (Steps(g) /\ Wrote) =>
                     /\ Returns(g)
                     /\ LastFrame.id = gs[g].m.id
              /\ (Returns(g) /\ gs[g].m.id # NoId
                  /\ gs[g].m.method \in ResponseMethods) =>
                     /\ Wrote
                     /\ LastFrame.id = gs[g].m.id
              /\ gs[g].pc = "done" => gs'[g].pc = "done"
       /\ \A i, j \in DOMAIN out' :
              (out'[i].id = out'[j].id /\ out'[i].id # NoId) => i = j]_vars

\* C29 witness: two requests were read, the second one a symbol search,
\* both handlers have returned, and the output holds one frame for each
\* identifier, the answer to the second request written first
C29_Witness ==
    /\ Len(gs) = 2
    /\ \A g \in DOMAIN gs : gs[g].pc = "done"
    /\ Len(out) = 2
    /\ out[1] = ResultFrame(IdOf(2), "symbols", <<>>)
    /\ out[2] = ResultFrame(IdOf(1), "null", <<>>)


\* C30: a step that changes the index is a step of the handler of
\* initialize or of didSave; no step of any other handler adds, removes or
\* reorders a record, and no step of the handler of didSave changes the
\* cache
C30_IndexWriters ==
    [][/\ tagEntries' # tagEntries =>
              \E g \in DOMAIN gs : Steps(g) /\ (IsBulk(g) \/ IsRescan(g))
       /\ \A g \in DOMAIN gs :
              /\ (Steps(g) /\ ~IsBulk(g) /\ ~IsRescan(g)) =>
                     tagEntries' = tagEntries
              /\ (Steps(g) /\ IsRescan(g)) => cache' = cache]_vars

\* C30 witness: initialize has filled the index, a didOpen handled after
\* it has put a.rb into the cache, and the index is still what one
\* recursive scan reports
C30_Witness ==
    /\ Len(gs) = 2
    /\ \A g \in DOMAIN gs : gs[g].pc = "done"
    /\ out = <<ResultFrame(IdOf(1), "capabilities", <<>>)>>
    /\ tagEntries # <<>>
    /\ tagEntries = DecodeOutput(CtagsRecursive(FileOrder, disk), rootPath)
    /\ AbsOf(FileA) \in DOMAIN cache


\* the identifier characters: letters, digits, underscore and '$'
IdentifierRunes ==
    Range(LowerAlpha) \cup Range(UpperAlpha) \cup Digits \cup {"_", "$"}

\* [s, e) is the maximal run of identifier characters of runes around the
\* offset c, in runes: it holds c, every rune in it is an identifier
\* character, and the runes next to it on either side are not
MaximalRun(runes, c, s, e) ==
    /\ s <= c
    /\ c <= e
    /\ \A k \in (s + 1)..e : runes[k] \in IdentifierRunes
    /\ s = 0 \/ runes[s] \notin IdentifierRunes
    /\ e = Len(runes) \/ runes[e + 1] \notin IdentifierRunes

\* C31: for a cursor at a rune offset between 0 and the length of its
\* line, getCurrentWord returns the runes of the maximal run of identifier
\* characters around the offset, and it fails (the handler answers without
\* a word) exactly when that run is empty
C31_MaximalRun ==
    [][\A g \in DOMAIN gs :
          (Steps(g) /\ gs[g].pc = "word") =>
              LET runes == cache[DocPath(g)][gs[g].m.line + 1]
                  c == gs[g].m.char
              IN c \in 0..Len(runes) =>
                    \E s \in 0..c, e \in c..Len(runes) :
                        /\ MaximalRun(runes, c, s, e)
                        /\ s = e <=> gs'[g].pc = "done"
                        /\ s < e =>
                               /\ gs'[g].pc = "scan"
                               /\ gs'[g].word = SubSeq(runes, s + 1, e)
                               /\ Len(gs'[g].word) = e - s]_vars

\* C31 witness: on the line "$", two-byte rune, "a" the cursor at rune
\* offset 3, the end of the line, has yielded the word "a"; the same
\* offset counted in bytes lies inside the line
C31_Witness ==
    \E g \in DOMAIN gs :
        /\ gs[g].pc = "scan"
        /\ cache[DocPath(g)] = <<(<<"$", WideRune, "a">>)>>
        /\ gs[g].m.char = 3
        /\ gs[g].word = <<"a">>
        /\ ByteCount(cache[DocPath(g)][1]) = 4


\* the lines of an output that decode, in output order
DecodingLines(lines) == SelectSeq(lines, LAMBDA l : l.valid)

\* C32: the records a successful tool run hands to the append are the
\* lines of its output that decode, one record per such line and in the
\* order of the output, whatever lines that do not decode stand between
\* them; and the append adds exactly these records
C32_BadLinesSkipped ==
    [][\A g \in DOMAIN gs :
          /\ (Steps(g) /\ gs[g].pc = "tool" /\ gs'[g].pc = "append") =>
                 LET v == DecodingLines(ToolOutput(g))
                     entries == gs'[g].entries
                 IN /\ Len(entries) = Len(v)
                    /\ \A i \in DOMAIN v :
                          /\ entries[i].Name = v[i].entry.Name
                          /\ entries[i].Kind = v[i].entry.Kind
                          /\ entries[i].Line = v[i].entry.Line
                          /\ entries[i].Path = v[i].entry.Path
          /\ (Returns(g) /\ gs[g].pc = "append") =>
                 tagEntries' = tagEntries \o gs[g].entries]_vars

\* C32 witness: initialize alone has run on the unchanged workspace, whose
\* scan prints six lines, the third of which does not decode; the index
\* holds the five records of the other lines, the fourth line's record
\* right behind the second line's
C32_Witness ==
    /\ Len(gs) = 1
    /\ gs[1].pc = "done"
    /\ diskWrites = 0
    /\ Len(CtagsRecursive(FileOrder, disk)) = 6
    /\ ~CtagsRecursive(FileOrder, disk)[3].valid
    /\ Len(tagEntries) = 5
    /\ tagEntries[2].Name = NameBar
    /\ tagEntries[3].Name = NameFooBar
    /\ tagEntries[4].Name = NameBaz


\* C33: a data line with a single-letter kind gives a record whose kind is
\* the mapping of the letter in the table of the record's language when
\* that table has one, else the mapping of the letter in the default table
\* (the headers without a language) when that table has one, else the
\* letter itself; a kind field of several characters is kept as it is
C33_KindResolution ==
    [][\A g \in DOMAIN gs :
          (ScansEntry(g) /\ BareKind(ScannedLine(g)) # <<>>) =>
              LET letter == BareKind(ScannedLine(g))
                  language == ScannedEntry(g).Language
                  m == gs[g].kindMap
              IN IF Len(letter) # 1
                 THEN ScannedEntry(g).Kind = letter
                 ELSE IF language # <<>> /\ Registered(m, language, letter)
                 THEN ScannedEntry(g).Kind = m.byLanguage[language][letter]
                 ELSE IF Registered(m, DefaultLanguage, letter)
                 THEN ScannedEntry(g).Kind = m.byLanguage[DefaultLanguage][letter]
                 ELSE ScannedEntry(g).Kind = letter]_vars


\* C34: in every step of the scan of a tags file, a letter that the table
\* of a language, or the default table, maps to a kind name before the
\* step is mapped to the same kind name by that table after it, and every
\* kind name recognised before the step is recognised after it
C34_TableOnlyGrows ==
    [][\A g \in DOMAIN gs :
          (Steps(g) /\ gs[g].pc = "tagfile" /\ gs'[g].pc = "tagfile") =>
              LET m == gs[g].kindMap
                  n == gs'[g].kindMap
              IN /\ \A language \in DOMAIN m.byLanguage :
                       \A letter \in DOMAIN m.byLanguage[language] :
                           /\ Registered(n, language, letter)
                           /\ n.byLanguage[language][letter]
                                  = m.byLanguage[language][letter]
                 /\ \A kind \in m.kindNames : isKindName(n, kind)]_vars



\* the keys of the extension fields parseTagfileEntry knows
KnownKeys == {KeyLine, KeyLanguage, KeyKind, KeyTyperef, KeyScope, KeyScopeKind}

\* a header line among the first i lines of g's tags file registers `kind`
RegisteredEarlier(g, kind) ==
    \E j \in 1..gs[g].i, language \in {<<>>, LangRuby, LangPython},
       letter \in {<<"c">>, <<"f">>, <<"m">>} :
        gs[g].tagfile[j] = HeaderLine(language, letter, kind)

\* the record parseTagfileEntry builds from the first k fields of the line
\* that g scans
EntryOfFields(g, k) ==
    parseTagfileEntry(JoinWith(SubSeq(Split(ScannedLine(g), Tab), 1, k), Tab),
                      Join(rootPath, TagsName), rootPath, gs[g].kindMap).entry

\* C35: in a data line, an extension field whose key is none of the known
\* keys changes the record built from the fields before it exactly when
\* that record has neither scope nor scope kind and the key is a kind name
\* registered by a header line read earlier in the file: the scope kind
\* becomes the key and the scope the value; otherwise the record built
\* with the field is the record built without it
C35_ScopeHeuristic ==
    [][\A g \in DOMAIN gs :
          ScansEntry(g) =>
              \A k \in 5..Len(Split(ScannedLine(g), Tab)) :
                  LET c == Cut(Split(ScannedLine(g), Tab)[k], Colon)
                      before == EntryOfFields(g, k - 1)
                      after == EntryOfFields(g, k)
                  IN (c.found /\ c.before \notin KnownKeys) =>
                        IF /\ before.Scope = <<>>
                           /\ before.ScopeKind = <<>>
                           /\ RegisteredEarlier(g, c.before)
                        THEN after = [before EXCEPT !.ScopeKind = c.before,
                                                    !.Scope = c.after]
                        ELSE after = before]_vars

\* C35 witness: behind the header of the Ruby kind class, the data line of
\* bar with the fields class:Foo and method:baz has given a record of
\* scope kind class and scope Foo
C35_Witness ==
    \E g \in DOMAIN gs :
        /\ gs[g].pc = "tagfile"
        /\ gs[g].i = 2
        /\ gs[g].tagfile[1] = HeaderLine(LangRuby, <<"c">>, KindClass)
        /\ gs[g].tagfile[2] =
               DataLine(TagEntry(NameBar, FileA, KindMethod, 2),
                        <<KindClass \o <<Colon>> \o NameFoo,
                          KindMethod \o <<Colon>> \o NameBaz>>)
        /\ Len(gs[g].entries) = 1
        /\ gs[g].entries[1].ScopeKind = KindClass
        /\ gs[g].entries[1].Scope = NameFoo


\* the first run of digits of s, as the expression (\d+) finds it
FirstDigitRun(s) ==
    LET starts == {i \in DOMAIN s : s[i] \in Range(DigitChars)}
        a == CHOOSE i \in starts : \A j \in starts : i <= j
        b == CHOOSE j \in a..Len(s) :
                 /\ \A k \in a..j : s[k] \in Range(DigitChars)
                 /\ j = Len(s) \/ s[j + 1] \notin Range(DigitChars)
    IN IF starts = {} THEN <<>> ELSE SubSeq(s, a, b)

\* the values of the explicit line fields of a data line
LineFields(line) ==
    LET fields == Split(line, Tab)
    IN {Cut(fields[k], Colon).after :
           k \in {j \in 4..Len(fields) : /\ Cut(fields[j], Colon).found
                                         /\ Cut(fields[j], Colon).before = KeyLine}}

\* C36: the line of the record of a data line is the value of its explicit
\* line field when it has one; otherwise the address when the address is a
\* literal line number; otherwise the number formed by the first run of
\* digits of the search pattern, when the pattern has one
C36_DeclarationLine ==
    [][\A g \in DOMAIN gs :
          ScansEntry(g) =>
              LET address == TrimSuffix(Split(ScannedLine(g), Tab)[3], <<";", "\"">>)
                  explicit == LineFields(ScannedLine(g))
                  run == FirstDigitRun(address)
              IN IF explicit # {}
                 THEN \E v \in explicit : ScannedEntry(g).Line = Atoi(v).n
                 ELSE IF ~Atoi(address).err
                 THEN ScannedEntry(g).Line = Atoi(address).n
                 ELSE run # <<>> => ScannedEntry(g).Line = Atoi(run).n]_vars


\* the place in the index of the first record that has the name `label`
\* and the word as a case-insensitive prefix
FirstNamed(label, word) ==
    CHOOSE j \in DOMAIN tagEntries :
        /\ tagEntries[j].Name = label
        /\ CaselessPrefix(word, label)
        /\ \A i \in 1..(j - 1) : tagEntries[i].Name # label

\* C37: every item of a completion result is built (label, category,
\* detail and documentation) from the first record of the index, in
\* insertion order, that has the item's name; a later record of that name
\* never gives the item
C37_FirstRecordWins ==
    [][\A g \in DOMAIN gs :
          (IsCompletion(g) /\ gs[g].pc = "scan" /\ Returns(g) /\ Wrote) =>
              \A i \in DOMAIN LastFrame.items :
                  LET e == tagEntries[FirstNamed(LastFrame.items[i].Label, gs[g].word)]
                  IN LastFrame.items[i] =
                         CompletionItem(e, GetLSPCompletionKind(e.Kind))]_vars


\* C38: when the rune before the cursor is not a period, the names of a
\* completion result are the names of the records that have the word as a
\* case-insensitive prefix and either a kind of the Text category (every
\* unmapped kind has it) or the file extension of the document, and every
\* item comes from such a record; no completion result is marked incomplete
C38_IncludedAwayFromPeriod ==
    [][\A g \in DOMAIN gs :
          (IsCompletion(g) /\ Returns(g) /\ Wrote /\ LastFrame.kind = "completion") =>
              /\ ~LastFrame.isIncomplete
              /\ (gs[g].pc = "scan" /\ ~PeriodBeforeCursor(g)) =>
                    /\ {LastFrame.items[i].Label : i \in DOMAIN LastFrame.items}
                           = {tagEntries[j].Name :
                                 j \in {n \in DOMAIN tagEntries :
                                    /\ CaselessPrefix(gs[g].word, tagEntries[n].Name)
                                    /\ \/ GetLSPCompletionKind(tagEntries[n].Kind)
                                              = CompletionItemKindText
                                       \/ Ext(tagEntries[n].Path) = Ext(DocPath(g))}}
                    /\ \A i \in DOMAIN LastFrame.items :
                          \/ LastFrame.items[i].Kind = CompletionItemKindText
                          \/ Ext(LastFrame.items[i].DetailPath) = Ext(DocPath(g))]_vars

\* C38 witness: with two records Foo of c.py in the index, a method and
\* one of an unmapped kind, a completion in a.rb was answered with the
\* single item of the unmapped one, of the Text category, and not marked
\* incomplete
C38_Witness ==
    \E k \in DOMAIN out :
        /\ out[k].kind = "completion"
        /\ ~out[k].isIncomplete
        /\ Len(out[k].items) = 1
        /\ out[k].items[1].Kind = CompletionItemKindText
        /\ out[k].items[1].DetailPath = FileC
        /\ tagEntries = <<TagEntry(NameFoo, FileC, KindMethod, 1),
                          TagEntry(NameFoo, FileC, KindUnknown, 1)>>


\* record e matches g's symbol request: by name for workspace/symbol, by
\* the absolute path of its file for documentSymbol
Matches(g, e) ==
    IF IsWorkspaceSymbol(g) THEN e.Name = gs[g].m.query
    ELSE Abs(Join(rootPath, e.Path)) = Abs(uriToPath(gs[g].m.uri))

\* the content of e's file can be had, from the cache or from the disk
Loadable(e) ==
    \/ Abs(Join(rootPath, e.Path)) \in DOMAIN cache
    \/ ~readFileLines(Abs(Join(rootPath, e.Path))).err

\* the symbol of record e: name, category, location, container
SymbolOf(e) ==
    [Name |-> e.Name, Kind |-> GetLSPSymbolKind(e.Kind).kind,
     URI |-> FileScheme \o Abs(Join(rootPath, e.Path)),
     Range |-> findSymbolRangeInFile(cache'[Abs(Join(rootPath, e.Path))],
                                     e.Name, e.Line),
     ContainerName |-> e.Scope]

\* g's step answers a workspace/symbol or documentSymbol request
AnswersSymbols(g) ==
    /\ IsWorkspaceSymbol(g) \/ IsDocumentSymbol(g)
    /\ Returns(g)
    /\ Wrote
    /\ LastFrame.kind = "symbols"

\* C39 as stated: the symbols of the answer are, in index order, one for
\* each matching record of a mapped kind
C39_AsStated ==
    [][\A g \in DOMAIN gs :
          AnswersSymbols(g) =>
              LET emitted == SelectSeq(tagEntries,
                                 LAMBDA e : /\ Matches(g, e)
                                            /\ ~GetLSPSymbolKind(e.Kind).err)
              IN Len(LastFrame.items) = Len(emitted)]_vars

\* C39: the answer of workspace/symbol and of documentSymbol holds, in
\* index order, one symbol for each matching record whose kind has a
\* symbol category and whose file's content can be had, and none for any
\* other record; documentSymbol matches a record exactly when the absolute
\* path of root joined with its path is the absolute path of the document,
\* whatever its name; each symbol has the record's name, its category, its
\* location and its scope as container
C39_SymbolsEmitted ==
    [][\A g \in DOMAIN gs :
          AnswersSymbols(g) =>
              LET emitted == SelectSeq(tagEntries,
                                 LAMBDA e : /\ Matches(g, e)
                                            /\ ~GetLSPSymbolKind(e.Kind).err
                                            /\ Loadable(e))
              IN /\ Len(LastFrame.items) = Len(emitted)
                 /\ \A k \in DOMAIN emitted :
                       LastFrame.items[k] = SymbolOf(emitted[k])]_vars

\* C39 witness: documentSymbol for a.rb, asked with a "." in the URI, on an
\* index of the method bar of a.rb in the scope Foo and a record of a.rb of
\* an unmapped kind, was answered with the single symbol bar, a Method in
\* the container Foo
C39_Witness ==
    /\ Len(tagEntries) = 2
    /\ tagEntries[1].Kind = KindUnknown
    /\ tagEntries[2].Name = NameBar
    /\ \E k \in DOMAIN out :
          /\ out[k].kind = "symbols"
          /\ Len(out[k].items) = 1
          /\ out[k].items[1].Name = NameBar
          /\ out[k].items[1].Kind = SymbolKindMethod
          /\ out[k].items[1].ContainerName = NameFoo
          /\ out[k].items[1].URI = URIOf(FileA)


\* the character offsets at which name occurs in line
Occurrences(line, name) ==
    {k \in 0..(Len(line) - Len(name)) : SubSeq(line, k + 1, k + Len(name)) = name}

\* C40: findSymbolRangeInFile(lines, name, n), with i = n - 1: when i is
\* outside the lines the range is the empty one at character 0 of line i;
\* when name occurs in line i the range starts at the character of its
\* first occurrence and ends length(name) characters later; otherwise it
\* goes from character 0 to the length of line i. Start and end are on the
\* same line and start is not after end
C40_RangeOfSymbol ==
    [][\A g \in DOMAIN gs :
          (AnswersSymbols(g) /\ Len(LastFrame.items) = 1) =>
              LET e == tagEntries[1]
                  lines == cache[Abs(Join(rootPath, e.Path))]
                  i == e.Line - 1
                  r == LastFrame.items[1].Range
                  at == Occurrences(lines[i + 1], e.Name)
                  first == CHOOSE k \in at : \A j \in at : k <= j
              IN /\ r.StartLine = r.EndLine
                 /\ r.StartChar <= r.EndChar
                 /\ IF i < 0 \/ i >= Len(lines)
                    THEN r = RangeOf(i, 0, i, 0)
                    ELSE IF at # {}
                    THEN r = RangeOf(i, first, i, first + Len(e.Name))
                    ELSE r = RangeOf(i, 0, i, Len(lines[i + 1]))]_vars

====
